---- MODULE Spec2Model ----
(***************************************************************************)
(* Model of the RedButton badge engine (modules/redbutton_badge.py) and of *)
(* the transaction builders it shares with modules/uniswap.py.             *)
(*                                                                         *)
(* Spec     : process_wallet for one wallet, one action per step of the    *)
(*            coroutine; chain reads, receipts and RPC failures are the    *)
(*            environment and are chosen non-deterministically.            *)
(* SpecAccum: the accumulation loop of process_wallet alone, with room for  *)
(*            more items in one pass.                                      *)
(* SpecSell : sell_nfts_batch alone, on id lists long enough to need       *)
(*            several chunks.                                              *)
(* SpecTx   : the fee and gas-limit computation of the three transaction   *)
(*            builders, as a function of what the chain reports.           *)
(* SpecCheck: check_unique_minted and get_minted_token_id on one receipt.  *)
(*                                                                         *)
(* Token amounts are in whole RBTN, fees in tenths of a gwei.              *)
(***************************************************************************)
EXTENDS Integers, Sequences, FiniteSets, Bags, TLC

(***************************************************************************)
(* Program constants                                                       *)
(***************************************************************************)
TARGET_VALUE_RBTN == 1300

RARITY_UNIQUE == 3

RARITY_VALUES == (0 :> 15) @@ (1 :> 80) @@ (2 :> 800) @@ (3 :> 3000) @@ (4 :> 18000) @@ (5 :> 400000)

batch_size == 50

\* length create_permit_signature demands of a signature
PERMIT_SIG_LEN == 65

\* Web3.to_wei(1, "gwei"), in the fee unit of the model (a tenth of a gwei)
GWEI == 10

\* gas added to a buffered estimate
GAS_EXTRA == 10000

\* gas limits used when the estimate fails
FALLBACK_GAS_SEND == 650000

FALLBACK_GAS_LIFI == 500000

FALLBACK_GAS_V4 == 200000

(***************************************************************************)
(* Bounds of the model                                                     *)
(***************************************************************************)
\* rarity indices the item contract answers with: 0..MaxRarity (the table ends at 5)
MaxRarity == 6

\* items whose Minted event is decoded during one run of process_wallet
MaxTokens == 2

\* the same, when the accumulation loop is checked on its own
MaxPassTokens == 6

\* value of nonces(owner) on the token contract
MaxPermitNonce == 1

\* logs in one receipt
MaxLogs == 2

\* RBTN balances the token contract answers with
BalanceReads == {0, 500, TARGET_VALUE_RBTN}

\* allowances the token contract answers with
AllowanceReads == {0, TARGET_VALUE_RBTN}

\* lengths of the signature the signer returns
SignatureLengths == {64, 65}

\* line 42: the reward pool, spender of the permit
REWARD_POOL_ADDRESS == "0xa486"

\* line 56: the jackpot-tier draw mode
GACHA_OG == 3

\* line 553: lifetime of a permit, in seconds
PERMIT_TTL == 3600

\* what time.time() answers at the entry of mint_og
ClockReads == {0, 60}

\* seconds spent waiting for the approve receipt (lines 570-572)
WaitTimes == {30, 120}

\* line 553: the deadline of a draw attempt
Deadline(now) == now + PERMIT_TTL

\* (variant: the signer takes a deadline from the clock at signing time)
PermitDeadline_refreshed(deadline, now) == Deadline(now)

\* lines 583-586: the deadline handed to create_permit_signature
PermitDeadline(deadline, now) == deadline

\* lines 481-487: the message of the permit
PermitMessage(owner, spender, amount, nonce, deadline) ==
    [owner |-> owner, spender |-> spender, value |-> amount, nonce |-> nonce,
     deadline |-> deadline]

\* lines 591-592: the draw transaction, sent from the wallet with the permit it carries
drawItem(from, mode, deadline, permit) ==
    [from |-> from, mode |-> mode, deadline |-> deadline, permit |-> permit]

\* length of the id list handed to sell_nfts_batch when it is checked on its own
MaxSellIds == 101

\* transactions the chain counts for the wallet
MaxTxCount == 4

\* results of a gas estimate, besides two realistic ones
MaxGasEstimate == 11

EstimateValues == (1..MaxGasEstimate) \cup {21000, 21001}

\* base fee of the latest block (NoBaseFee: the block has none), legacy gas price,
\* reported priority fee, gas limit of a LI.FI quote; fees in tenths of a gwei
NoBaseFee == -1

BaseFeeValues == {NoBaseFee, 0, 100}

GasPriceValues == {0, 7, 100}

PriorityFeeValues == {0, 5, 10, 25}

\* the quote carries no gasLimit
NoQuoteGas == -1

QuoteGasValues == {NoQuoteGas, 300000}

(***************************************************************************)
(* Values                                                                  *)
(***************************************************************************)
\* Python's None where an integer is expected (a token id)
None == -1

\* the wallet address in checksum form, as process_wallet holds it
WalletAddress == "0xAbCd"

\* what ownerOf answers: the wallet in either spelling, or another account
OwnerValues == {"0xAbCd", "0xabcd", "0xEf01"}

Rarities == 0..MaxRarity

\* rarity indices in the Minted events of a jackpot-tier draw
DrawRarities == {0, RARITY_UNIQUE}

\* a receipt is awaited: it comes with status 1, with status 0, or not at all
ReceiptOutcomes == {"ok", "reverted", "timeout"}

TxKinds == {"mint", "sell", "approve", "draw", "claim", "swap"}

\* str.lower() on the addresses of the model
Lower(a) ==
    CASE a = "0xAbCd" -> "0xabcd"
      [] a = "0xEf01" -> "0xef01"
      [] OTHER -> a

\* (variant: the table is read one index too far)
RarityValue_shifted(r) == IF r + 1 \in DOMAIN RARITY_VALUES THEN RARITY_VALUES[r + 1] ELSE 0

\* dict.get(rarity_index, 0) on RARITY_VALUES
RarityValue(r) == IF r \in DOMAIN RARITY_VALUES THEN RARITY_VALUES[r] ELSE 0

\* a log that is not a Minted event of the item contract
BadLog == [kind |-> "other"]

MintedLog(o, id, r) == [kind |-> "Minted", owner |-> o, tokenId |-> id, rarityIndex |-> r]

\* token id of an item minted to another account in the same receipt
ForeignTokenId == 0

\* the logs a receipt can carry when the wallet's item (if any) has id `id`
LogSet(id, rs) ==
    {BadLog} \cup {MintedLog(o, id, r) : o \in {"0xAbCd", "0xabcd"}, r \in rs}
             \cup {MintedLog("0xEf01", ForeignTokenId, r) : r \in rs}

SeqsUpTo(S, n) == UNION {[1..k -> S] : k \in 0..n}

ReceiptLogs(id, rs) == SeqsUpTo(LogSet(id, rs), MaxLogs)

\* (variant: the last matching log wins)
RECURSIVE get_minted_token_id_last(_, _)
get_minted_token_id_last(logs, wallet_address) ==
    IF logs = <<>> THEN None
    ELSE LET n == Len(logs) IN
         IF /\ logs[n].kind = "Minted"
            /\ Lower(logs[n].owner) = Lower(wallet_address)
         THEN logs[n].tokenId
         ELSE get_minted_token_id_last(SubSeq(logs, 1, n - 1), wallet_address)

\* get_minted_token_id: tokenId of the first log that decodes as Minted for the wallet
RECURSIVE get_minted_token_id(_, _)
get_minted_token_id(logs, wallet_address) ==
    IF logs = <<>> THEN None
    ELSE IF /\ Head(logs).kind = "Minted"
            /\ Lower(Head(logs).owner) = Lower(wallet_address)
         THEN Head(logs).tokenId
         ELSE get_minted_token_id(Tail(logs), wallet_address)

\* (variant: the loop goes on at equality)
MintLoopCond_le(total, needed) == total <= needed

\* (variant: a balance equal to the target still accumulates)
SkipAccumulation_gt(balance) == balance > TARGET_VALUE_RBTN

\* line 821: the accumulation is skipped when the balance already covers the target
SkipAccumulation(balance) == balance >= TARGET_VALUE_RBTN

\* (variant: the target ignores the balance the wallet holds)
NeededValue_full(balance) == TARGET_VALUE_RBTN

\* line 824: what is left to accumulate above the balance just read
NeededValue(balance) == TARGET_VALUE_RBTN - balance

\* condition of the accumulation loop
MintLoopCond(total, needed) == total < needed

\* where an exception raised inside the balance/accumulation try block goes
AccumExceptTarget == "iter"

\* check_unique_minted: a Minted log of the wallet with the Unique rarity, else the
\* hasUniqueMinted view (view is "true", "false" or "raises")
RECURSIVE UniqueInLogs(_, _)
UniqueInLogs(logs, wallet_address) ==
    IF logs = <<>> THEN FALSE
    ELSE IF /\ Head(logs).kind = "Minted"
            /\ Lower(Head(logs).owner) = Lower(wallet_address)
            /\ Head(logs).rarityIndex = RARITY_UNIQUE
         THEN TRUE
         ELSE UniqueInLogs(Tail(logs), wallet_address)

\* (variant: no fallback to the view)
check_unique_minted_noview(logs, wallet_address, view) == UniqueInLogs(logs, wallet_address)

check_unique_minted(logs, wallet_address, view) ==
    IF UniqueInLogs(logs, wallet_address) THEN TRUE
    ELSE IF view = "raises" THEN FALSE
    ELSE view = "true"

\* check_unique_minted reaches its call of hasUniqueMinted
ViewCalled(logs, wallet_address) == ~UniqueInLogs(logs, wallet_address)

\* (variant: a database error is answered with True)
is_wallet_completed_onerror(row_exists, db_error) == row_exists \/ db_error

\* is_wallet_completed: a row exists; a database error is answered with False
is_wallet_completed(row_exists, db_error) ==
    IF db_error THEN FALSE ELSE row_exists

\* (variant: the comparison is off by one)
check_sbt_minted_gt1(balance, rpc_error) ==
    IF rpc_error THEN FALSE ELSE balance > 1

\* check_sbt_minted: balance > 0; an RPC error is answered with False
check_sbt_minted(balance, rpc_error) ==
    IF rpc_error THEN FALSE ELSE balance > 0

\* the slice token_ids[i:i + batch_size]
Min(a, b) == IF a < b THEN a ELSE b

Batch(token_ids, i) == SubSeq(token_ids, i + 1, Min(i + batch_size, Len(token_ids)))

\* (variant: the nonce of the previous permit is used again)
PermitNonce_previous(chain_nonce) == IF chain_nonce > 0 THEN chain_nonce - 1 ELSE 0

\* (variant: the nonce is not read from the contract)
PermitNonce_stale(chain_nonce) == 0

\* the nonce create_permit_signature puts in the message: the value nonces(owner) answered
PermitNonce(chain_nonce) == chain_nonce

\* (variant: the resale of the jackpot item is not inside a try block)
SellExceptTarget_uncaught(ctx) ==
    CASE ctx = "og" -> "iter"
      [] ctx = "direct" -> "sell_raised"
      [] OTHER -> "raised"

\* where an exception leaving sell_nfts_batch goes, by call site
SellExceptTarget(ctx) ==
    CASE ctx = "accum" -> "raised"
      [] ctx = "unique" -> "returned"
      [] ctx = "og" -> "iter"
      [] OTHER -> "sell_raised"

\* (variant: the draw item of a missed draw sold, control goes on to the balance check of step 3)
SellReturnTarget_og_draw(ctx) ==
    CASE ctx = "accum" -> "step3"
      [] ctx = "unique" -> "swap_begin"
      [] ctx = "og" -> "step3"
      [] OTHER -> "sell_returned"

\* where process_wallet continues after sell_nfts_batch returns, by call site
SellReturnTarget(ctx) ==
    CASE ctx = "accum" -> "step3"
      [] ctx = "unique" -> "swap_begin"
      [] ctx = "og" -> "iter"
      [] OTHER -> "sell_returned"

\* the places of process_wallet, mint_og and swap_rbtn_to_eth that broadcast a transaction
TxSites == {"mint", "sell", "approve", "draw", "claim", "swap_approve", "swap"}

\* the kind of transaction a place broadcasts
KindOf(site) == IF site = "swap_approve" THEN "approve" ELSE site

\* (variant: mint_og does not wait for the receipt of its approve)
AwaitPc_noapprove(site) ==
    CASE site = "mint" -> "mint_wait"
      [] site = "sell" -> "sell_wait"
      [] site = "approve" -> "og_permit"
      [] site = "draw" -> "og_wait"
      [] site = "claim" -> "sbt_wait"
      [] site = "swap_approve" -> "swap_approve_wait"
      [] site = "swap" -> "swap_wait"

\* the await of wait_for_confirmation that follows each broadcast
\* (lines 835, 634, 570, 908, 926, 720, 764)
AwaitPc(site) ==
    CASE site = "mint" -> "mint_wait"
      [] site = "sell" -> "sell_wait"
      [] site = "approve" -> "approve_wait"
      [] site = "draw" -> "og_wait"
      [] site = "claim" -> "sbt_wait"
      [] site = "swap_approve" -> "swap_approve_wait"
      [] site = "swap" -> "swap_wait"

\* (variant: an item is tracked without a decoded id)
MintTracked_undecoded(status, token_id, info) ==
    status = "ok" /\ info = "ok"

\* lines 836-866: a common draw is tracked when its receipt has status 1, its Minted
\* event decodes for the wallet and tokenInfo answers
MintTracked(status, token_id, info) ==
    status = "ok" /\ token_id # None /\ info = "ok"

\* (variant: any receipt of the approve counts, whatever its status)
ApproveConfirmed_any(status) == status # "timeout"

\* line 571, mint_og: `receipt and receipt.status == 1` on the approve
ApproveConfirmed(status) == status = "ok"

\* (variant: any receipt of the claim counts, whatever its status)
ClaimConfirmed_any(status) == status # "timeout"

\* line 927: `receipt and receipt.status == 1` on the credential claim
ClaimConfirmed(status) == status = "ok"

\* (variant: any receipt of the draw counts, whatever its status)
DrawConfirmed_any(status) == status # "timeout"

\* line 909: `not receipt or receipt.status != 1` sends the cycle back to its start
DrawConfirmed(status) == status = "ok"

\* (variant: a signature of the wrong length is retried by the cycle)
AbortTarget_retry(cause) == IF cause = "signature" THEN "iter" ELSE "raised"

\* lines 877, 905 and 923: sell_nfts_batch, mint_og and mint_sbt are called outside every
\* try block of process_wallet, so what they raise, whatever its cause, leaves process_wallet
AbortTarget(cause) == "raised"

\* (variant: the nonce of the previous transaction is kept and used again)
TxNonce_cached(pending_count, cached) == IF cached = -1 THEN pending_count ELSE cached

\* line 366 of send_transaction and line 727 of swap_rbtn_to_eth: the nonce of the
\* transaction is what get_transaction_count(address, "pending") answers during the build
TxNonce(pending_count, cached) == pending_count

\* lines 936 and 966: owner.lower() == wallet_address.lower()
Owns(owner, wallet_address) == Lower(owner) = Lower(wallet_address)

\* a row of the table completed_wallets (the columns the model follows)
Row(address, module, completed_count) ==
    [address |-> address, module |-> module, completed_count |-> completed_count]

\* the keys (address, module) present in the table
RowKeys(rows) == {<<r.address, r.module>> : r \in BagToSet(rows)}

\* (variant: the insert clears the rest of the table)
MarkRows_only(rows, address, module, completed_count) ==
    SetToBag({Row(address, module, completed_count)})

\* (variant: a plain INSERT into a table without the primary key)
MarkRows_insert(rows, address, module, completed_count) ==
    rows (+) SetToBag({Row(address, module, completed_count)})

\* lines 203-210 of db_utils.py: INSERT OR REPLACE on the primary key (address, module):
\* the rows with the same key are deleted, then the new row is inserted
MarkRows(rows, address, module, completed_count) ==
    LET others == {r \in DOMAIN rows : <<r.address, r.module>> # <<address, module>>}
    IN [r \in others |-> rows[r]] (+) SetToBag({Row(address, module, completed_count)})

\* (variant: the count is not restricted to the module)
get_module_stats_all(rows, module, db_error) ==
    IF db_error THEN 0 ELSE BagCardinality(rows)

\* lines 266-290 of db_utils.py: SELECT COUNT(*) ... WHERE module = ?; 0 on a database error
get_module_stats(rows, module, db_error) ==
    IF db_error THEN 0
    ELSE BagCardinality([r \in {q \in DOMAIN rows : q.module = module} |-> rows[r]])

\* (variant: the loop stays on the same key)
NextKey_same(i) == i

\* line 1024: the for loop goes to the next shuffled index
NextKey(i) == i + 1

\* (variant: a reported fee of zero or less is kept)
PriorityFee_nofallback(reported, raised) == IF raised THEN GWEI ELSE reported

\* lines 410-415: the priority fee of a dynamic-fee transaction
\* (reported is what max_priority_fee answered, raised tells that the read failed)
PriorityFee(reported, raised) ==
    LET priority_fee == IF raised THEN GWEI ELSE reported IN
    IF priority_fee <= 0 THEN GWEI ELSE priority_fee

\* (variant: the product is rounded up)
GasBuffer_ceil(estimated_gas) == (estimated_gas * 12 + 9) \div 10

\* int(estimated_gas * 1.2): the product is a float and int() drops its fraction
GasBuffer(estimated_gas) == (estimated_gas * 12) \div 10

\* (variant: the legacy price is put next to the dynamic fee fields)
FeeFields_both(in) ==
    LET priority_fee == PriorityFee(in.priority, in.priority_raises) IN
    IF in.base_fee = NoBaseFee
    THEN [gasPrice |-> in.gas_price]
    ELSE [gasPrice |-> in.gas_price,
          maxFeePerGas |-> in.base_fee * 2 + priority_fee,
          maxPriorityFeePerGas |-> priority_fee]

\* the fee fields of send_transaction and of swap_rbtn_to_eth
FeeFields(in) ==
    IF in.base_fee = NoBaseFee
    THEN [gasPrice |-> in.gas_price]
    ELSE LET priority_fee == PriorityFee(in.priority, in.priority_raises) IN
         [maxFeePerGas |-> in.base_fee * 2 + priority_fee,
          maxPriorityFeePerGas |-> priority_fee]

\* (variant: send_transaction falls back to the limit of a swap)
SendGasLimit_v4(in) ==
    IF in.estimate_raises THEN FALLBACK_GAS_V4
    ELSE GasBuffer(in.estimate) + GAS_EXTRA

\* lines 388-396: the gas limit of send_transaction
SendGasLimit(in) ==
    IF in.estimate_raises THEN FALLBACK_GAS_SEND
    ELSE GasBuffer(in.estimate) + GAS_EXTRA

\* lines 753-757: the gas limit of the LI.FI swap; without an estimate it is the gasLimit
\* of the quote, or a constant when the quote has none
LifiGasLimit(in) ==
    IF in.estimate_raises
    THEN IF in.quote_gas = NoQuoteGas THEN FALLBACK_GAS_LIFI ELSE in.quote_gas
    ELSE GasBuffer(in.estimate) + GAS_EXTRA

\* lines 735-749 of uniswap.py: the gas limit of the Uniswap v4 swap
V4GasLimit(in) ==
    IF in.estimate_raises THEN FALLBACK_GAS_V4
    ELSE GasBuffer(in.estimate)

\* lines 710-732 of uniswap.py: the fee fields of the Uniswap v4 swap
V4FeeFields(in) ==
    IF in.gas_price # 0
    THEN [maxFeePerGas |-> in.gas_price, maxPriorityFeePerGas |-> in.gas_price \div 10]
    ELSE [gasPrice |-> in.gas_price]

\* the fee and gas fields of the transaction a builder signs
BuildTx(in) ==
    CASE in.builder = "send_transaction" -> FeeFields(in) @@ [gas |-> SendGasLimit(in)]
      [] in.builder = "swap_rbtn_to_eth" -> FeeFields(in) @@ [gas |-> LifiGasLimit(in)]
      [] in.builder = "execute_v4_swap" -> V4FeeFields(in) @@ [gas |-> V4GasLimit(in)]

Builders == {"send_transaction", "swap_rbtn_to_eth", "execute_v4_swap"}

TxInputs ==
    [builder : Builders, base_fee : BaseFeeValues, gas_price : GasPriceValues,
     priority : PriorityFeeValues, priority_raises : BOOLEAN,
     estimate : EstimateValues, estimate_raises : BOOLEAN, quote_gas : QuoteGasValues]

NoTxInput ==
    [builder |-> "none", base_fee |-> NoBaseFee, gas_price |-> 0, priority |-> 0,
     priority_raises |-> FALSE, estimate |-> 0, estimate_raises |-> FALSE, quote_gas |-> 0]

NoTx == [gas |-> 0]

(***************************************************************************)
(* State                                                                   *)
(***************************************************************************)
VARIABLES
    pc,               \* position of process_wallet (or of sell_nfts_batch, of the builder, ...)
    nft_ids,          \* ids tracked by the current accumulation pass
    nft_rarity,       \* chain: what tokenInfo answered for each tracked id
    total_value,      \* accumulated value of the tracked ids
    needed_value,     \* target of the current pass
    next_token_id,    \* chain: id of the next item whose Minted event the wallet decodes
    db_completed,     \* database: the completion record of the wallet exists
    sbt_balance,      \* chain: credential balance of the wallet
    permit_nonce,     \* chain: nonces(owner) of the token contract
    sellCtx,          \* call site of the running sell_nfts_batch
    sellIds,          \* its token_ids argument
    sellI,            \* its loop index i
    sell_log,         \* the batches it has broadcast so far, in order
    unique_token_id,  \* id decoded from a jackpot receipt, or None
    permits,          \* the last two permit messages signed: <<previous, last>>
    entry,            \* at the entry of process_wallet: was the wallet completed (record or
                      \* credential), and which read, if any, came back saying so
    sbt_confirmed,    \* a mintSBT receipt with status 1 was seen in this run
    sent,             \* kinds of transaction broadcast by this run
    marked,           \* mark_wallet_completed was called by this run
    last_mint,        \* the receipt of the last common draw: its status and the decoded id
    awaiting,         \* the place whose broadcast transaction is being awaited, or "none"
    og_pre,           \* what mint_og and step 3 read before the draw of this iteration
    abort_cause,      \* why process_wallet raised, or "none"
    iter_balance,     \* what balanceOf answered at the start of the iteration, or -1
    liquidated,       \* chain: ids sold by the sell transactions mined in this iteration
    submitted,        \* ids carried by the sell transactions broadcast in this iteration
    draw_tx,          \* the arguments of the jackpot-tier draw in flight and its permit
    last_draw,        \* the receipt status of the last jackpot-tier draw and how it was judged
    tx_in,            \* what the chain reports to the builder of a transaction
    tx,               \* the fee and gas fields of the transaction it signed
    chk_in,           \* a receipt's logs and the answer of hasUniqueMinted
    chk_out,          \* what the outcome check and the decoder made of them
    indices,          \* _run_async: the shuffled key indices
    run_i,            \* _run_async: position of the for loop in indices
    running,          \* _run_async: key index whose process_wallet is in progress, or 0
    started,          \* how many times process_wallet was started for each key index
    wallets_completed,\* _run_async: counter of wallets that returned
    wallets_failed,   \* _run_async: counter of wallets that raised
    completed_wallets,\* database: the rows of the table completed_wallets, a bag
    db_stats,         \* the last get_module_stats call and its answer
    db_marked,        \* the keys for which a mark_wallet_completed call succeeded
    db_query,         \* the last is_wallet_completed call and its answer
    tx_count,         \* chain: get_transaction_count(address, "pending") of the wallet
    tx_nonce,         \* the nonce of the last transaction a builder signed, or -1
    proxies_list,     \* harkan run: the proxies loaded from the proxy file, in order
    used_proxies_set, \* harkan run: the proxies taken by the wallets processed so far
    hk_indices,       \* harkan run: the shuffled key indices
    hk_i,             \* harkan run: position of the for loop in hk_indices
    hk_proxy,         \* the proxy each wallet's requests went through, or NoProxy
    hk_requests,      \* the kinds of request made for each wallet
    hk_result,        \* what process_wallet returned for each wallet, or "none"
    hk_in             \* what the last harkan process_wallet found at its start

accVars == <<nft_ids, nft_rarity, total_value, needed_value>>

sellVars == <<sellCtx, sellIds, sellI, sell_log>>

chainVars == <<db_completed, sbt_balance, permit_nonce>>

histVars == <<permits, entry, sbt_confirmed>>

ghostVars == <<marked, last_mint, og_pre, abort_cause, last_draw, iter_balance, liquidated,
              submitted, draw_tx>>

txVars == <<tx_in, tx, chk_in, chk_out>>

runVars == <<indices, run_i, running, started, wallets_completed, wallets_failed>>

dbVars == <<completed_wallets, db_marked, db_query, db_stats>>

nonceVars == <<tx_count, tx_nonce>>

harkanVars == <<proxies_list, used_proxies_set, hk_indices, hk_i, hk_proxy, hk_requests,
                hk_result, hk_in>>

\* what process_wallet never touches
auxVars == <<txVars, runVars, dbVars, nonceVars, harkanVars>>

vars == <<pc, accVars, next_token_id, chainVars, sellVars, unique_token_id, histVars, sent,
          awaiting, ghostVars, auxVars>>

MintPcs == {"mint_loop", "mint_wait"}

NoPermit == [nonce |-> -1, chain |-> -1]

NoEntry == [completed |-> FALSE, read |-> "none"]

NoCheck == [logs |-> <<>>, view |-> "false"]

NoOutcome == [is_unique |-> FALSE, view_called |-> FALSE, token_id |-> None]

NoMint == [status |-> "none", token_id |-> None]

NoPre ==
    [step3 |-> -1, balance |-> -1, allowance |-> -1, approve |-> "none", start |-> -1,
     waited |-> 0, deadline |-> -1]

NoMessage == [owner |-> "none", spender |-> "none", value |-> -1, nonce |-> -1, deadline |-> -1]

NoDrawTx == [from |-> "none", mode |-> -1, deadline |-> -1, permit |-> NoMessage]

NoDraw == [judged |-> "none", token_id |-> None, owner |-> "none", status |-> "none"]

NoQuery == [address |-> "none", module |-> "none", result |-> FALSE, error |-> FALSE]

NoStats == [module |-> "none", error |-> FALSE, total_completed |-> 0]

\* process_wallet has not started: nothing is awaited, nothing was recorded
NoCycle ==
    /\ marked = FALSE
    /\ last_mint = NoMint
    /\ awaiting = "none"
    /\ og_pre = NoPre
    /\ abort_cause = "none"
    /\ last_draw = NoDraw
    /\ iter_balance = -1
    /\ liquidated = {}
    /\ submitted = {}
    /\ draw_tx = NoDrawTx

\* the transaction builders and the outcome check are not in use
NoBuild ==
    /\ tx_in = NoTxInput
    /\ tx = NoTx
    /\ chk_in = NoCheck
    /\ chk_out = NoOutcome

\* _run_async is not in use
NoRun ==
    /\ indices = <<>>
    /\ run_i = 0
    /\ running = 0
    /\ started = <<>>
    /\ wallets_completed = 0
    /\ wallets_failed = 0

\* no transaction count is followed
NoNonce ==
    /\ tx_count = 0
    /\ tx_nonce = -1

NoHarkanIn ==
    [wallet_index |-> 0, used |-> {}, early |-> FALSE, account |-> FALSE, stored_ip |-> "none"]

\* the harkan module is not in use
NoHarkan ==
    /\ proxies_list = <<>>
    /\ used_proxies_set = {}
    /\ hk_indices = <<>>
    /\ hk_i = 0
    /\ hk_proxy = <<>>
    /\ hk_requests = <<>>
    /\ hk_result = <<>>
    /\ hk_in = NoHarkanIn

\* the completion table is not in use
NoDb ==
    /\ completed_wallets = EmptyBag
    /\ db_marked = {}
    /\ db_query = NoQuery
    /\ db_stats = NoStats

Init ==
    /\ pc = "start"
    /\ nft_ids = <<>>
    /\ nft_rarity = <<>>
    /\ total_value = 0
    /\ needed_value = TARGET_VALUE_RBTN
    /\ next_token_id = 1
    /\ db_completed \in BOOLEAN
    /\ sbt_balance \in {0, 1}
    /\ permit_nonce = 0
    /\ sellCtx = "none"
    /\ sellIds = <<>>
    /\ sellI = 0
    /\ sell_log = <<>>
    /\ unique_token_id = None
    /\ permits = <<NoPermit, NoPermit>>
    /\ entry = [completed |-> db_completed \/ sbt_balance > 0, read |-> "none"]
    /\ sbt_confirmed = FALSE
    /\ sent = {}
    /\ NoCycle
    /\ NoBuild
    /\ NoRun
    /\ NoDb
    /\ NoNonce
    /\ NoHarkan

\* send_transaction returned a hash at the place `site`: the transaction is broadcast and
\* the caller goes on to await its receipt
Broadcast(site) ==
    /\ pc' = AwaitPc(site)
    /\ sent' = sent \cup {KindOf(site)}
    /\ awaiting' = site

\* an exception leaves process_wallet
Abort(cause) ==
    /\ pc' = AbortTarget(cause)
    /\ abort_cause' = cause

\* lines 794-805: the two completion checks at the head of process_wallet
Entry ==
    /\ pc = "start"
    /\ \E db_error, rpc_error \in BOOLEAN :
        /\ entry' = [entry EXCEPT !.read =
                        IF db_completed /\ ~db_error THEN "record"
                        ELSE IF sbt_balance > 0 /\ ~rpc_error THEN "balance"
                        ELSE "none"]
        /\ IF is_wallet_completed(db_completed, db_error)
           THEN /\ pc' = "returned"
                /\ UNCHANGED <<db_completed, marked>>
           ELSE IF check_sbt_minted(sbt_balance, rpc_error)
           THEN /\ pc' = "returned"
                /\ marked' = TRUE
                \* mark_wallet_completed logs a database error and returns
                /\ db_completed' \in {TRUE, db_completed}
           ELSE /\ pc' = "iter"
                /\ UNCHANGED <<db_completed, marked>>
    /\ UNCHANGED <<accVars, next_token_id, sbt_balance, permit_nonce, sellVars,
                   unique_token_id, permits, sbt_confirmed, sent, awaiting,
                   last_mint, og_pre, abort_cause, last_draw, iter_balance, liquidated, submitted, draw_tx, auxVars>>

\* lines 807-826 and 870-873: reset of the pass state and first balance read
IterStart ==
    /\ pc = "iter"
    /\ nft_ids' = <<>>
    /\ nft_rarity' = <<>>
    /\ total_value' = 0
    /\ last_mint' = NoMint
    /\ last_draw' = NoDraw
    /\ liquidated' = {}
    /\ submitted' = {}
    /\ \/ \* balanceOf raises
          /\ needed_value' = TARGET_VALUE_RBTN
          /\ iter_balance' = -1
          /\ pc' = AccumExceptTarget
       \/ \E b \in BalanceReads :
            /\ iter_balance' = b
            /\ IF SkipAccumulation(b)
               THEN /\ needed_value' = TARGET_VALUE_RBTN
                    /\ pc' = "step2"
               ELSE /\ needed_value' = NeededValue(b)
                    /\ pc' = "mint_loop"
    /\ UNCHANGED <<next_token_id, chainVars, sellVars, unique_token_id, histVars, sent,
                   awaiting, marked, og_pre, abort_cause, draw_tx, auxVars>>

\* lines 830-833: one more common draw is sent, or send_transaction raises
MintNoobSend ==
    /\ pc = "mint_loop"
    /\ MintLoopCond(total_value, needed_value)
    /\ last_mint' = NoMint
    /\ \/ Broadcast("mint")
       \/ /\ pc' = AccumExceptTarget
          /\ UNCHANGED <<sent, awaiting>>
    /\ UNCHANGED <<accVars, next_token_id, chainVars, sellVars, unique_token_id, histVars,
                   marked, og_pre, abort_cause, last_draw, iter_balance, liquidated, submitted, draw_tx, auxVars>>

\* line 830: the loop condition is false
MintLoopExit ==
    /\ pc = "mint_loop"
    /\ ~MintLoopCond(total_value, needed_value)
    /\ pc' = "step2"
    /\ last_mint' = NoMint
    /\ UNCHANGED <<accVars, next_token_id, chainVars, sellVars, unique_token_id, histVars, sent,
                   awaiting, marked, og_pre, abort_cause, last_draw, iter_balance, liquidated, submitted, draw_tx, auxVars>>

\* lines 835-869: receipt of a common draw, decoding, rarity lookup
MintNoobWaitUpTo(cap) ==
    /\ pc = "mint_wait"
    /\ pc' = "mint_loop"
    /\ awaiting' = "none"
    /\ \E status \in ReceiptOutcomes :
        /\ status = "ok" => next_token_id <= cap
        /\ \E r \in IF status = "ok" THEN Rarities ELSE {0},
              info \in IF status = "ok" THEN {"ok", "raises"} ELSE {"ok"} :
           \E logs \in IF status = "ok" THEN ReceiptLogs(next_token_id, {r}) ELSE {<<>>} :
             LET token_id == get_minted_token_id(logs, WalletAddress) IN
             /\ last_mint' = [status |-> status, token_id |-> token_id]
             /\ IF MintTracked(status, token_id, info)
                THEN /\ next_token_id' = next_token_id + 1
                     /\ nft_ids' = Append(nft_ids, token_id)
                     /\ nft_rarity' = Append(nft_rarity, r)
                     /\ total_value' = total_value + RarityValue(r)
                ELSE UNCHANGED <<nft_ids, nft_rarity, total_value, next_token_id>>
    /\ UNCHANGED <<needed_value, chainVars, sellVars, unique_token_id, histVars, sent,
                   marked, og_pre, abort_cause, last_draw, iter_balance, liquidated, submitted, draw_tx, auxVars>>

MintNoobWait == MintNoobWaitUpTo(MaxTokens)

\* sell_nfts_batch is entered with the ids `ids` from the call site `ctx`
StartSell(ctx, ids) ==
    /\ pc' = "sell_loop"
    /\ sellCtx' = ctx
    /\ sellIds' = ids
    /\ sellI' = 0
    /\ sell_log' = <<>>

\* sell_nfts_batch is left, by return or by exception: its locals are gone
EndSell ==
    /\ sellCtx' = "none"
    /\ sellIds' = <<>>
    /\ sellI' = 0
    /\ sell_log' = <<>>

\* lines 875-877: the tracked ids, if any, go to the liquidator
Step2 ==
    /\ pc = "step2"
    /\ IF nft_ids # <<>>
       THEN StartSell("accum", nft_ids)
       ELSE /\ pc' = "step3"
            /\ UNCHANGED sellVars
    /\ UNCHANGED <<accVars, next_token_id, chainVars, unique_token_id, histVars, sent,
                   awaiting, ghostVars, auxVars>>

\* lines 626-632: the next batch is broadcast, or send_transaction raises
SellSend ==
    /\ pc = "sell_loop"
    /\ sellI < Len(sellIds)
    /\ \/ /\ Broadcast("sell")
          /\ sell_log' = Append(sell_log, Batch(sellIds, sellI))
          /\ submitted' = submitted \cup
                             {Batch(sellIds, sellI)[k] : k \in 1..Len(Batch(sellIds, sellI))}
          /\ UNCHANGED <<sellCtx, sellIds, sellI, abort_cause>>
       \/ /\ pc' = SellExceptTarget(sellCtx)
          /\ abort_cause' = IF SellExceptTarget(sellCtx) = "raised" THEN "rpc" ELSE abort_cause
          /\ EndSell
          /\ UNCHANGED <<sent, awaiting, submitted>>
    /\ UNCHANGED <<accVars, next_token_id, chainVars, unique_token_id, histVars,
                   marked, last_mint, og_pre, last_draw, iter_balance, liquidated, draw_tx, auxVars>>

\* lines 634-638: the receipt of the batch, whatever it is, then the next index
SellWait ==
    /\ pc = "sell_wait"
    /\ awaiting' = "none"
    /\ \E status \in ReceiptOutcomes :
        LET batch == Batch(sellIds, sellI)
            sold == liquidated \cup {batch[k] : k \in 1..Len(batch)}
        IN /\ pc' = "sell_loop"
           /\ sellI' = sellI + batch_size
           \* a batch whose wait gave up may still be mined
           /\ liquidated' \in CASE status = "ok" -> {sold}
                                 [] status = "reverted" -> {liquidated}
                                 [] status = "timeout" -> {liquidated, sold}
    /\ UNCHANGED <<accVars, next_token_id, chainVars, sellCtx, sellIds, sell_log,
                   unique_token_id, histVars, sent, marked, last_mint, og_pre, abort_cause,
                   last_draw, iter_balance, submitted, draw_tx, auxVars>>

\* line 626: the range is exhausted and sell_nfts_batch returns
\* (lines 879-887 read the balance for the log only)
SellDone ==
    /\ pc = "sell_loop"
    /\ sellI >= Len(sellIds)
    /\ pc' = SellReturnTarget(sellCtx)
    /\ EndSell
    /\ UNCHANGED <<accVars, next_token_id, chainVars, unique_token_id, histVars, sent,
                   awaiting, ghostVars, auxVars>>

\* lines 889-902: the balance is read again before the jackpot draw
Step3 ==
    /\ pc = "step3"
    /\ \/ /\ pc' = "iter"          \* balanceOf raises
          /\ UNCHANGED og_pre
       \/ \E b \in BalanceReads :
            IF b < TARGET_VALUE_RBTN
            THEN /\ pc' = "iter"
                 /\ UNCHANGED og_pre
            ELSE /\ pc' = "mint_og"
                 /\ og_pre' = [NoPre EXCEPT !.step3 = b]
    /\ UNCHANGED <<accVars, next_token_id, chainVars, sellVars, unique_token_id, histVars, sent,
                   awaiting, marked, last_mint, abort_cause, last_draw, iter_balance, liquidated, submitted, draw_tx, auxVars>>

\* lines 553-569, mint_og: balance and allowance reads, approve when the allowance is short
MintOgBegin ==
    /\ pc = "mint_og"
    /\ \/ /\ Abort("rpc")       \* balanceOf or allowance raises
          /\ og_pre' = NoPre
          /\ UNCHANGED <<sent, awaiting>>
       \/ \E balance \in BalanceReads, allowance \in AllowanceReads, now \in ClockReads :
            IF balance < TARGET_VALUE_RBTN
            THEN /\ Abort("balance")
                 /\ og_pre' = NoPre
                 /\ UNCHANGED <<sent, awaiting>>
            ELSE IF allowance < TARGET_VALUE_RBTN
            THEN \/ /\ Broadcast("approve")
                    /\ og_pre' = [og_pre EXCEPT !.balance = balance, !.allowance = allowance,
                                                !.start = now, !.deadline = Deadline(now)]
                    /\ UNCHANGED abort_cause
                 \/ /\ Abort("rpc")         \* send_transaction raises
                    /\ og_pre' = NoPre
                    /\ UNCHANGED <<sent, awaiting>>
            ELSE /\ pc' = "og_permit"
                 /\ og_pre' = [og_pre EXCEPT !.balance = balance, !.allowance = allowance,
                                                !.start = now, !.deadline = Deadline(now)]
                 /\ UNCHANGED <<sent, awaiting, abort_cause>>
    /\ UNCHANGED <<accVars, next_token_id, chainVars, sellVars, unique_token_id, histVars,
                   marked, last_mint, last_draw, iter_balance, liquidated, submitted, draw_tx, auxVars>>

\* lines 570-581, mint_og: the approve receipt
ApproveWait ==
    /\ pc = "approve_wait"
    /\ awaiting' = "none"
    /\ \E status \in ReceiptOutcomes :
        IF ApproveConfirmed(status)
        THEN /\ pc' = "og_permit"
             /\ \E waited \in WaitTimes :
                   og_pre' = [og_pre EXCEPT !.approve = status, !.waited = waited]
             /\ UNCHANGED abort_cause
        ELSE /\ Abort(status)
             /\ og_pre' = NoPre
    /\ UNCHANGED <<accVars, next_token_id, chainVars, sellVars, unique_token_id, histVars, sent,
                   marked, last_mint, last_draw, iter_balance, liquidated, submitted, draw_tx, auxVars>>

\* lines 583-593 and 464-516, mint_og: the permit is signed and the draw is broadcast
MintOgPermit ==
    /\ pc = "og_permit"
    /\ \/ /\ Abort("nonce")     \* nonces(owner) raises
          /\ og_pre' = NoPre
          /\ UNCHANGED <<permits, sent, awaiting, draw_tx>>
       \/ \E sig_len \in SignatureLengths :
            IF sig_len # PERMIT_SIG_LEN
            THEN /\ Abort("signature")
                 /\ og_pre' = NoPre
                 /\ UNCHANGED <<permits, sent, awaiting, draw_tx>>
            ELSE /\ permits' = <<permits[2],
                                 [nonce |-> PermitNonce(permit_nonce), chain |-> permit_nonce]>>
                 /\ \/ /\ Broadcast("draw")
                       /\ draw_tx' = drawItem(WalletAddress, GACHA_OG, og_pre.deadline,
                                      PermitMessage(WalletAddress, REWARD_POOL_ADDRESS,
                                          TARGET_VALUE_RBTN, PermitNonce(permit_nonce),
                                          PermitDeadline(og_pre.deadline,
                                                         og_pre.start + og_pre.waited)))
                       /\ UNCHANGED <<og_pre, abort_cause>>
                    \/ /\ Abort("rpc")      \* send_transaction raises
                       /\ og_pre' = NoPre
                       /\ UNCHANGED <<sent, awaiting, draw_tx>>
    /\ UNCHANGED <<accVars, next_token_id, chainVars, sellVars, unique_token_id,
                   entry, sbt_confirmed, marked, last_mint, last_draw, iter_balance, liquidated,
                   submitted, auxVars>>

\* lines 960-976: the item of a missed draw is sold when its id is known and still owned
MissedDraw(logs, status) ==
    LET og_token_id == get_minted_token_id(logs, WalletAddress) IN
    /\ next_token_id' = IF og_token_id = None THEN next_token_id ELSE next_token_id + 1
    /\ UNCHANGED unique_token_id
    /\ IF og_token_id = None
       THEN /\ pc' = "iter"
            /\ last_draw' = [judged |-> "miss", token_id |-> None, owner |-> "none", status |-> status]
            /\ UNCHANGED sellVars
       ELSE \/ /\ pc' = "iter"          \* ownerOf raises
               /\ last_draw' = [judged |-> "miss", token_id |-> og_token_id, owner |-> "raises",
                             status |-> status]
               /\ UNCHANGED sellVars
            \/ \E owner \in OwnerValues :
                /\ last_draw' = [judged |-> "miss", token_id |-> og_token_id, owner |-> owner,
                                 status |-> status]
                /\ IF Owns(owner, WalletAddress)
                   THEN StartSell("og", <<og_token_id>>)
                   ELSE /\ pc' = "iter"
                        /\ UNCHANGED sellVars

\* lines 919-922: the draw is a jackpot, its id is decoded
JackpotDraw(logs, status) ==
    LET id == get_minted_token_id(logs, WalletAddress) IN
    /\ unique_token_id' = id
    /\ next_token_id' = IF id = None THEN next_token_id ELSE next_token_id + 1
    /\ last_draw' = [judged |-> "jackpot", token_id |-> id, owner |-> "none", status |-> status]
    /\ pc' = "jackpot"
    /\ UNCHANGED sellVars

\* lines 908-920 and 960-976: the draw receipt and the outcome check
OgWait ==
    /\ pc = "og_wait"
    /\ awaiting' = "none"
    /\ og_pre' = NoPre
    /\ draw_tx' = NoDrawTx
    /\ \E status \in ReceiptOutcomes :
        /\ status = "ok" => permit_nonce < MaxPermitNonce
        \* a confirmed draw used its permit; a draw whose wait gave up may still be mined
        /\ permit_nonce' \in CASE status = "ok" -> {permit_nonce + 1}
                               [] status = "reverted" -> {permit_nonce}
                               [] status = "timeout" ->
                                    {permit_nonce, Min(permit_nonce + 1, MaxPermitNonce)}
        /\ IF DrawConfirmed(status)
           THEN \E logs \in IF status = "ok" THEN ReceiptLogs(next_token_id, DrawRarities)
                                              ELSE {<<>>},
                   view \in {"true", "false", "raises"} :
                     IF check_unique_minted(logs, WalletAddress, view)
                     THEN JackpotDraw(logs, status)
                     ELSE MissedDraw(logs, status)
           ELSE /\ pc' = "iter"
                /\ last_draw' = [NoDraw EXCEPT !.status = status]
                /\ UNCHANGED <<next_token_id, sellVars, unique_token_id>>
    /\ UNCHANGED <<accVars, db_completed, sbt_balance, histVars, sent,
                   marked, last_mint, abort_cause, iter_balance, liquidated, submitted, auxVars>>

\* lines 923-924: the credential claim is broadcast, or send_transaction raises
MintSbtSend ==
    /\ pc = "jackpot"
    /\ \/ /\ Broadcast("claim")
          /\ UNCHANGED abort_cause
       \/ /\ Abort("rpc")
          /\ UNCHANGED <<sent, awaiting>>
    /\ UNCHANGED <<accVars, next_token_id, chainVars, sellVars, unique_token_id, histVars,
                   marked, last_mint, og_pre, last_draw, iter_balance, liquidated, submitted, draw_tx, auxVars>>

\* lines 926-959: the receipt of the credential claim and the best-effort resale
SbtWait ==
    /\ pc = "sbt_wait"
    /\ awaiting' = "none"
    /\ \E status \in ReceiptOutcomes :
        \* the claim is mined, fails, or may still be mined after the wait gave up
        /\ sbt_balance' \in CASE status = "ok" -> {1}
                              [] status = "reverted" -> {sbt_balance}
                              [] status = "timeout" -> {sbt_balance, 1}
        /\ sbt_confirmed' = (sbt_confirmed \/ status = "ok")
        /\ IF ClaimConfirmed(status)
           THEN /\ marked' = TRUE
                \* mark_wallet_completed logs a database error and returns
                /\ db_completed' \in {TRUE, db_completed}
                /\ IF unique_token_id = None
                   THEN /\ pc' = "returned"
                        /\ UNCHANGED sellVars
                   ELSE \/ /\ pc' = "returned"   \* ownerOf raises
                           /\ UNCHANGED sellVars
                        \/ \E owner \in OwnerValues :
                             IF Owns(owner, WalletAddress)
                             THEN StartSell("unique", <<unique_token_id>>)
                             ELSE /\ pc' = "returned"
                                  /\ UNCHANGED sellVars
           ELSE /\ pc' = "iter"
                /\ UNCHANGED <<db_completed, marked, sellVars>>
    /\ UNCHANGED <<accVars, next_token_id, permit_nonce, unique_token_id, permits, entry, sent,
                   last_mint, og_pre, abort_cause, last_draw, iter_balance, liquidated, submitted, draw_tx, auxVars>>

\* lines 664-719, swap_rbtn_to_eth: balance, quote, allowance, approve when short
SwapBegin ==
    /\ pc = "swap_begin"
    /\ \/ /\ pc' = "returned"   \* a read or the quote request raises, or the quote is unusable
          /\ UNCHANGED <<sent, awaiting>>
       \/ \E balance \in BalanceReads, allowance \in AllowanceReads :
            IF balance = 0
            THEN /\ pc' = "returned"
                 /\ UNCHANGED <<sent, awaiting>>
            ELSE IF allowance < balance
            THEN \/ Broadcast("swap_approve")
                 \/ /\ pc' = "returned"     \* send_transaction raises
                    /\ UNCHANGED <<sent, awaiting>>
            ELSE /\ pc' = "swap_send"
                 /\ UNCHANGED <<sent, awaiting>>
    /\ UNCHANGED <<accVars, next_token_id, chainVars, sellVars, unique_token_id, histVars,
                   ghostVars, auxVars>>

\* lines 720-724, swap_rbtn_to_eth: the approve receipt
SwapApproveWait ==
    /\ pc = "swap_approve_wait"
    /\ awaiting' = "none"
    /\ \E status \in ReceiptOutcomes :
        pc' = IF status = "ok" THEN "swap_send" ELSE "returned"
    /\ UNCHANGED <<accVars, next_token_id, chainVars, sellVars, unique_token_id, histVars, sent,
                   ghostVars, auxVars>>

\* lines 726-762, swap_rbtn_to_eth: the swap is built and broadcast
SwapSend ==
    /\ pc = "swap_send"
    /\ \/ Broadcast("swap")
       \/ /\ pc' = "returned"               \* a read or the broadcast raises
          /\ UNCHANGED <<sent, awaiting>>
    /\ UNCHANGED <<accVars, next_token_id, chainVars, sellVars, unique_token_id, histVars,
                   ghostVars, auxVars>>

\* lines 764-774, swap_rbtn_to_eth: the swap receipt, whatever it is
SwapWait ==
    /\ pc = "swap_wait"
    /\ awaiting' = "none"
    /\ \E status \in ReceiptOutcomes : pc' = "returned"
    /\ UNCHANGED <<accVars, next_token_id, chainVars, sellVars, unique_token_id, histVars, sent,
                   ghostVars, auxVars>>

Next ==
    \/ Entry
    \/ IterStart
    \/ MintNoobSend
    \/ MintLoopExit
    \/ MintNoobWait
    \/ Step2
    \/ SellSend
    \/ SellWait
    \/ SellDone
    \/ Step3
    \/ MintOgBegin
    \/ ApproveWait
    \/ MintOgPermit
    \/ OgWait
    \/ MintSbtSend
    \/ SbtWait
    \/ SwapBegin
    \/ SwapApproveWait
    \/ SwapSend
    \/ SwapWait

Spec == Init /\ [][Next]_vars

\* process_wallet keeps running: every await is bounded by a timeout
FairSpec == Spec /\ WF_vars(Next)

(***************************************************************************)
(* The accumulation loop alone                                             *)
(***************************************************************************)
InitAccum ==
    /\ pc = "iter"
    /\ nft_ids = <<>>
    /\ nft_rarity = <<>>
    /\ total_value = 0
    /\ needed_value = TARGET_VALUE_RBTN
    /\ next_token_id = 1
    /\ db_completed = FALSE
    /\ sbt_balance = 0
    /\ permit_nonce = 0
    /\ sellCtx = "none"
    /\ sellIds = <<>>
    /\ sellI = 0
    /\ sell_log = <<>>
    /\ unique_token_id = None
    /\ permits = <<NoPermit, NoPermit>>
    /\ entry = NoEntry
    /\ sbt_confirmed = FALSE
    /\ sent = {}
    /\ NoCycle
    /\ NoBuild
    /\ NoRun
    /\ NoDb
    /\ NoNonce
    /\ NoHarkan

AccumMintWait == MintNoobWaitUpTo(MaxPassTokens)

NextAccum ==
    \/ IterStart
    \/ MintNoobSend
    \/ MintLoopExit
    \/ AccumMintWait

SpecAccum == InitAccum /\ [][NextAccum]_vars

(***************************************************************************)
(* sell_nfts_batch alone                                                   *)
(***************************************************************************)
\* id lists of every length up to MaxSellIds, ascending and descending
SellInputs ==
    {[i \in 1..n |-> i] : n \in 0..MaxSellIds} \cup {[i \in 1..n |-> n + 1 - i] : n \in 0..MaxSellIds}

InitSell ==
    /\ pc = "sell_loop"
    /\ sellCtx = "direct"
    /\ sellIds \in SellInputs
    /\ sellI = 0
    /\ sell_log = <<>>
    /\ nft_ids = <<>>
    /\ nft_rarity = <<>>
    /\ total_value = 0
    /\ needed_value = TARGET_VALUE_RBTN
    /\ next_token_id = 1
    /\ db_completed = FALSE
    /\ sbt_balance = 0
    /\ permit_nonce = 0
    /\ unique_token_id = None
    /\ permits = <<NoPermit, NoPermit>>
    /\ entry = NoEntry
    /\ sbt_confirmed = FALSE
    /\ sent = {}
    /\ NoCycle
    /\ NoBuild
    /\ NoRun
    /\ NoDb
    /\ NoNonce
    /\ NoHarkan

NextSell ==
    \/ SellSend
    \/ SellWait
    \/ SellDone

SpecSell == InitSell /\ [][NextSell]_vars

(***************************************************************************)
(* The transaction builders alone                                          *)
(***************************************************************************)
InitTx ==
    /\ pc = "tx_build"
    /\ tx_in \in TxInputs
    /\ tx = NoTx
    /\ chk_in = NoCheck
    /\ chk_out = NoOutcome
    /\ nft_ids = <<>>
    /\ nft_rarity = <<>>
    /\ total_value = 0
    /\ needed_value = TARGET_VALUE_RBTN
    /\ next_token_id = 1
    /\ db_completed = FALSE
    /\ sbt_balance = 0
    /\ permit_nonce = 0
    /\ sellCtx = "none"
    /\ sellIds = <<>>
    /\ sellI = 0
    /\ sell_log = <<>>
    /\ unique_token_id = None
    /\ permits = <<NoPermit, NoPermit>>
    /\ entry = NoEntry
    /\ sbt_confirmed = FALSE
    /\ sent = {}
    /\ NoCycle
    /\ NoRun
    /\ NoDb
    /\ NoNonce
    /\ NoHarkan

\* the builder computes the fee and gas fields and signs
SignTx ==
    /\ pc = "tx_build"
    /\ tx' = BuildTx(tx_in)
    /\ pc' = "tx_signed"
    /\ UNCHANGED <<accVars, next_token_id, chainVars, sellVars, unique_token_id, histVars, sent,
                   awaiting, ghostVars, tx_in, chk_in, chk_out, runVars, dbVars, nonceVars, harkanVars>>

NextTx ==
    \/ SignTx

SpecTx == InitTx /\ [][NextTx]_vars

(***************************************************************************)
(* The outcome check and the decoder alone                                 *)
(***************************************************************************)
CheckTokenId == 7

\* receipts in which the wallet may have been minted two different items
CheckLogs ==
    SeqsUpTo(LogSet(CheckTokenId, Rarities) \cup LogSet(CheckTokenId + 1, Rarities), MaxLogs)

InitCheck ==
    /\ pc = "check"
    /\ chk_in \in [logs : CheckLogs, view : {"true", "false", "raises"}]
    /\ chk_out = NoOutcome
    /\ tx_in = NoTxInput
    /\ tx = NoTx
    /\ nft_ids = <<>>
    /\ nft_rarity = <<>>
    /\ total_value = 0
    /\ needed_value = TARGET_VALUE_RBTN
    /\ next_token_id = 1
    /\ db_completed = FALSE
    /\ sbt_balance = 0
    /\ permit_nonce = 0
    /\ sellCtx = "none"
    /\ sellIds = <<>>
    /\ sellI = 0
    /\ sell_log = <<>>
    /\ unique_token_id = None
    /\ permits = <<NoPermit, NoPermit>>
    /\ entry = NoEntry
    /\ sbt_confirmed = FALSE
    /\ sent = {}
    /\ NoCycle
    /\ NoRun
    /\ NoDb
    /\ NoNonce
    /\ NoHarkan

\* lines 917-920 and 962: the outcome check and the decoder on one receipt
CheckOutcome ==
    /\ pc = "check"
    /\ chk_out' = [is_unique |-> check_unique_minted(chk_in.logs, WalletAddress, chk_in.view),
                   view_called |-> ViewCalled(chk_in.logs, WalletAddress),
                   token_id |-> get_minted_token_id(chk_in.logs, WalletAddress)]
    /\ pc' = "check_done"
    /\ UNCHANGED <<accVars, next_token_id, chainVars, sellVars, unique_token_id, histVars, sent,
                   awaiting, ghostVars, tx_in, tx, chk_in, runVars, dbVars, nonceVars, harkanVars>>

NextCheck ==
    \/ CheckOutcome

SpecCheck == InitCheck /\ [][NextCheck]_vars

(***************************************************************************)
(* The wallet loop of _run_async                                           *)
(***************************************************************************)
\* number of keys load_all_keys returns
NumKeys == 3

Keys == 1..NumKeys

\* no process_wallet is modelled step by step
NoWallet ==
    /\ nft_ids = <<>>
    /\ nft_rarity = <<>>
    /\ total_value = 0
    /\ needed_value = TARGET_VALUE_RBTN
    /\ next_token_id = 1
    /\ db_completed = FALSE
    /\ sbt_balance = 0
    /\ permit_nonce = 0
    /\ sellCtx = "none"
    /\ sellIds = <<>>
    /\ sellI = 0
    /\ sell_log = <<>>
    /\ unique_token_id = None
    /\ permits = <<NoPermit, NoPermit>>
    /\ entry = NoEntry
    /\ sbt_confirmed = FALSE
    /\ sent = {}

\* lines 1016-1021: the indices are shuffled, the counters are zero
InitRun ==
    /\ pc = "run_loop"
    /\ indices \in {p \in [Keys -> Keys] : \A k \in Keys : \E i \in Keys : p[i] = k}
    /\ run_i = 1
    /\ running = 0
    /\ started = [k \in Keys |-> 0]
    /\ wallets_completed = 0
    /\ wallets_failed = 0
    /\ NoWallet
    /\ NoCycle
    /\ NoBuild
    /\ NoDb
    /\ NoNonce
    /\ NoHarkan

\* what the wallet loop never touches
notRunVars == <<accVars, next_token_id, chainVars, sellVars, unique_token_id, histVars, sent,
                awaiting, ghostVars, txVars, dbVars, nonceVars, harkanVars>>

\* lines 1024-1035: the next index is taken; its key is loaded and process_wallet is
\* called, or load_private_key raises (lines 1042-1047)
RunWalletStart ==
    /\ pc = "run_loop"
    /\ run_i <= Len(indices)
    /\ \/ /\ running' = indices[run_i]
          /\ started' = [started EXCEPT ![indices[run_i]] = @ + 1]
          /\ pc' = "run_wallet"
          /\ UNCHANGED <<run_i, wallets_failed>>
       \/ /\ wallets_failed' = wallets_failed + 1
          /\ run_i' = NextKey(run_i)
          /\ UNCHANGED <<pc, running, started>>
    /\ UNCHANGED <<indices, wallets_completed, notRunVars>>

\* lines 1032-1037: process_wallet returns
RunWalletReturn ==
    /\ pc = "run_wallet"
    /\ running' = 0
    /\ wallets_completed' = wallets_completed + 1
    /\ run_i' = NextKey(run_i)
    /\ pc' = "run_loop"
    /\ UNCHANGED <<indices, started, wallets_failed, notRunVars>>

\* lines 1042-1047: process_wallet raises
RunWalletRaise ==
    /\ pc = "run_wallet"
    /\ running' = 0
    /\ wallets_failed' = wallets_failed + 1
    /\ run_i' = NextKey(run_i)
    /\ pc' = "run_loop"
    /\ UNCHANGED <<indices, started, wallets_completed, notRunVars>>

\* lines 1039-1041: the run is interrupted while a wallet is processed
RunInterrupt ==
    /\ pc = "run_wallet"
    /\ running' = 0
    /\ pc' = "run_done"
    /\ UNCHANGED <<indices, run_i, started, wallets_completed, wallets_failed, notRunVars>>

\* line 1024: the indices are exhausted (lines 1049-1055 log the counters)
RunLoopEnd ==
    /\ pc = "run_loop"
    /\ run_i > Len(indices)
    /\ pc' = "run_done"
    /\ UNCHANGED <<runVars, notRunVars>>

NextRun ==
    \/ RunWalletStart
    \/ RunWalletReturn
    \/ RunWalletRaise
    \/ RunInterrupt
    \/ RunLoopEnd

SpecRun == InitRun /\ [][NextRun]_vars

(***************************************************************************)
(* The nonce of the transactions of one wallet                             *)
(***************************************************************************)
InitNonce ==
    /\ pc = "nonce_idle"
    /\ tx_count \in 0..1
    /\ tx_nonce = -1
    /\ NoWallet
    /\ NoCycle
    /\ NoBuild
    /\ NoRun
    /\ NoDb
    /\ NoHarkan

notNonceVars == <<accVars, next_token_id, chainVars, sellVars, unique_token_id, histVars,
                  ghostVars, txVars, runVars, dbVars, harkanVars>>

\* send_transaction (lines 361-436) or the build of swap_rbtn_to_eth (lines 726-760) at the
\* place `site`: the pending count is read, the transaction is signed with it and sent; the
\* node accepts it, or send_raw_transaction raises
NonceSend ==
    /\ pc = "nonce_idle"
    /\ tx_count < MaxTxCount
    /\ tx_nonce' = TxNonce(tx_count, tx_nonce)
    /\ \E site \in TxSites :
        \/ /\ pc' = "nonce_wait"
           /\ sent' = sent \cup {KindOf(site)}
           /\ awaiting' = site
           /\ tx_count' = tx_count + 1
        \/ UNCHANGED <<pc, sent, awaiting, tx_count>>
    /\ UNCHANGED notNonceVars

\* wait_for_confirmation (lines 439-450) resolves: a receipt, or None; a transaction that
\* was not mined in time may have been dropped from the pool
NonceWait ==
    /\ pc = "nonce_wait"
    /\ pc' = "nonce_idle"
    /\ awaiting' = "none"
    /\ \E status \in ReceiptOutcomes :
        tx_count' \in IF status = "timeout" THEN {tx_count, tx_count - 1} ELSE {tx_count}
    /\ UNCHANGED <<sent, tx_nonce, notNonceVars>>

NextNonce ==
    \/ NonceSend
    \/ NonceWait

SpecNonce == InitNonce /\ [][NextNonce]_vars

(***************************************************************************)
(* The completion table of db_utils                                        *)
(***************************************************************************)
Addresses == {"0xAbCd", "0xEf01"}

Modules == {"redbutton_badge", "uniswap"}

\* values of the completed_count argument
CompletedCounts == {1, 2}

\* lines 31-48 of db_utils.py: the table is created empty
InitDb ==
    /\ pc = "db"
    /\ completed_wallets = EmptyBag
    /\ db_marked = {}
    /\ db_query = NoQuery
    /\ db_stats = NoStats
    /\ NoWallet
    /\ NoCycle
    /\ NoBuild
    /\ NoRun
    /\ NoNonce
    /\ NoHarkan

notDbVars == <<pc, accVars, next_token_id, chainVars, sellVars, unique_token_id, histVars, sent,
               awaiting, ghostVars, txVars, runVars, nonceVars, harkanVars>>

\* mark_wallet_completed(address, module, completed_count, ...): the row is written, or
\* the database raises and the error is logged
DbMark ==
    /\ pc = "db"
    /\ \E address \in Addresses, module \in Modules, completed_count \in CompletedCounts,
          db_error \in BOOLEAN :
        IF db_error
        THEN UNCHANGED <<completed_wallets, db_marked>>
        ELSE /\ completed_wallets' = MarkRows(completed_wallets, address, module, completed_count)
             /\ db_marked' = db_marked \cup {<<address, module>>}
    /\ UNCHANGED <<db_query, db_stats, notDbVars>>

\* is_wallet_completed(address, module)
DbIsCompleted ==
    /\ pc = "db"
    /\ \E address \in Addresses, module \in Modules, db_error \in BOOLEAN :
        db_query' = [address |-> address, module |-> module, error |-> db_error,
                     result |-> is_wallet_completed(<<address, module>> \in RowKeys(completed_wallets),
                                                    db_error)]
    /\ UNCHANGED <<completed_wallets, db_marked, db_stats, notDbVars>>

\* get_module_stats(module)
DbStats ==
    /\ pc = "db"
    /\ \E module \in Modules, db_error \in BOOLEAN :
        db_stats' = [module |-> module, error |-> db_error,
                     total_completed |-> get_module_stats(completed_wallets, module, db_error)]
    /\ UNCHANGED <<completed_wallets, db_marked, db_query, notDbVars>>

NextDb ==
    \/ DbMark
    \/ DbIsCompleted
    \/ DbStats

SpecDb == InitDb /\ [][NextDb]_vars

(***************************************************************************)
(* Properties                                                              *)
(***************************************************************************)
CeilDiv(n, d) == (n + d - 1) \div d

Max(a, b) == IF a > b THEN a ELSE b

\* C1 (as claimed): a wallet that has the completion record or holds the credential when
\* process_wallet starts never broadcasts a transaction.
C1_Original == entry.completed => sent = {}

\* C1: when the completion record exists and is read, or the credential balance is > 0 and
\* is read, process_wallet has returned without broadcasting any transaction; a read that
\* fails counts as "not completed" and the cycle starts.
C1_IdempotentSkip ==
    (pc # "start" /\ entry.read # "none") => (pc = "returned" /\ sent = {} /\ ~sbt_confirmed)

C1_Witness == pc = "returned" /\ entry.read = "balance" /\ sent = {}

\* C2 (as claimed): every step that tracks a new item raises total_value, strictly, by the
\* table value of the item's rarity, whatever rarity index the contract answers.
C2_Original ==
    [][Len(nft_ids') = Len(nft_ids) + 1 =>
        LET r == nft_rarity'[Len(nft_ids')] IN
        /\ r \in DOMAIN RARITY_VALUES
        /\ total_value' > total_value
        /\ total_value' - total_value = RARITY_VALUES[r]]_vars

\* C2: a step that tracks a new item raises total_value by exactly the table value of the
\* item's rarity, a strict increase, when the rarity index is in the table; for an index
\* outside the table the item is tracked and total_value stays as it was.
C2_Increment ==
    [][Len(nft_ids') = Len(nft_ids) + 1 =>
        LET r == nft_rarity'[Len(nft_ids')] IN
        /\ nft_ids' = Append(nft_ids, nft_ids'[Len(nft_ids')])
        /\ IF r \in 0..5
           THEN /\ total_value' = total_value + RARITY_VALUES[r]
                /\ total_value' > total_value
           ELSE total_value' = total_value]_vars

C2_Witness ==
    /\ Len(nft_ids) = 2
    /\ nft_rarity = <<1, 6>>
    /\ total_value = 80

\* C3 (as claimed): control leaves the accumulation loop only with
\* total_value >= needed_value.
C3_ExitOnlyAtTarget ==
    [][(pc \in MintPcs /\ pc' \notin MintPcs) => total_value >= needed_value]_vars

\* C4 (as claimed): whenever sell_nfts_batch is left, it has broadcast exactly ceil(N/50)
\* batches, each of at most 50 ids, the k-th being the k-th slice of 50 of the list.
C4_Chunking ==
    [][(pc = "sell_loop" /\ pc' \notin {"sell_loop", "sell_wait"}) =>
        /\ Len(sell_log) = CeilDiv(Len(sellIds), 50)
        /\ \A k \in 1..Len(sell_log) :
            /\ Len(sell_log[k]) <= 50
            /\ sell_log[k] = SubSeq(sellIds, 50 * (k - 1) + 1, Min(50 * k, Len(sellIds)))]_vars

\* C5: on a receipt none of whose logs decodes as a Minted event, check_unique_minted calls
\* hasUniqueMinted and answers what the view answers; it answers False when the call raises.
C5_Fallback ==
    (pc = "check_done" /\ \A i \in 1..Len(chk_in.logs) : chk_in.logs[i].kind # "Minted") =>
        /\ chk_out.view_called
        /\ chk_out.is_unique = (chk_in.view = "true")

C5_Witness ==
    /\ pc = "check_done"
    /\ chk_in.logs = <<BadLog>>
    /\ chk_in.view = "true"
    /\ chk_out.is_unique

\* C6 (as claimed): of two permits signed one after the other, the second carries a
\* strictly greater nonce.
C6_Original == permits[1] # NoPermit => permits[1].nonce < permits[2].nonce

\* C6: every permit carries the value nonces(owner) had when it was signed, so of two
\* permits signed one after the other the second nonce is never smaller; it is equal when
\* no permit was consumed in between (the draw reverted or was dropped).
C6_PermitNonces ==
    /\ \A i \in 1..2 : permits[i] # NoPermit => permits[i].nonce = permits[i].chain
    /\ permits[1] # NoPermit => permits[1].nonce <= permits[2].nonce

C6_Witness ==
    /\ permits[1] # NoPermit
    /\ permits[1].nonce = 0
    /\ permits[2].nonce = 1

ScenarioRarities == <<0, 1, 0, 2, 1, 2>>

ScenarioCumulative == <<15, 95, 110, 910, 990, 1790>>

\* C7: a common draw is in flight only while total_value < needed_value, the value
\* tracked before the last item was below the target, and with a zero balance the
\* rarities 0,1,0,2,1,2 give 15, 95, 110, 910, 990 without leaving the loop and leave it
\* after the sixth item with 1790.
C7_NoOverMint ==
    /\ pc = "mint_wait" => total_value < needed_value
    /\ nft_ids # <<>> => total_value - RarityValue(nft_rarity[Len(nft_rarity)]) < needed_value
    /\ \A n \in 1..6 :
        (needed_value = 1300 /\ nft_rarity = SubSeq(ScenarioRarities, 1, n)) =>
            /\ total_value = ScenarioCumulative[n]
            /\ Len(nft_ids) = n
            /\ n < 6 => pc # "step2"
            /\ n = 6 => pc \in {"mint_loop", "step2"}

C7_Witness ==
    /\ pc = "step2"
    /\ needed_value = 1300
    /\ nft_rarity = ScenarioRarities
    /\ Len(nft_ids) = 6
    /\ total_value = 1790

\* C8 (as claimed): with a base fee, send_transaction puts
\* maxPriorityFeePerGas = max(reported priority fee, 1 gwei).
C8_Original ==
    (/\ pc = "tx_signed"
     /\ tx_in.builder = "send_transaction"
     /\ tx_in.base_fee # NoBaseFee
     /\ ~tx_in.priority_raises) =>
        tx.maxPriorityFeePerGas = Max(tx_in.priority, 10)

\* C8: with a base fee, send_transaction puts the reported priority fee in
\* maxPriorityFeePerGas when it is > 0, also below 1 gwei, and 1 gwei when it is 0 or the
\* query fails; maxFeePerGas is twice the base fee plus that; base fee 10 gwei and a
\* reported 0 give 1 gwei and 21 gwei.
C8_PriorityFee ==
    (/\ pc = "tx_signed"
     /\ tx_in.builder = "send_transaction"
     /\ tx_in.base_fee # NoBaseFee) =>
        /\ tx.maxPriorityFeePerGas =
             IF tx_in.priority_raises \/ tx_in.priority = 0 THEN 10 ELSE tx_in.priority
        /\ tx.maxFeePerGas = 2 * tx_in.base_fee + tx.maxPriorityFeePerGas
        /\ (tx_in.base_fee = 100 /\ tx_in.priority = 0) =>
             (tx.maxPriorityFeePerGas = 10 /\ tx.maxFeePerGas = 210)

C8_Witness ==
    /\ pc = "tx_signed"
    /\ tx_in.builder = "send_transaction"
    /\ tx_in.base_fee = 100
    /\ ~tx_in.priority_raises
    /\ tx_in.priority = 5
    /\ tx.maxPriorityFeePerGas = 5
    /\ tx.maxFeePerGas = 205

\* C9 (as claimed): after a gas estimate s, the gas limit is ceil(s * 1.2) + 10000.
C9_Original ==
    (pc = "tx_signed" /\ ~tx_in.estimate_raises) =>
        tx.gas = CeilDiv(12 * tx_in.estimate, 10) + 10000

\* C9: after a gas estimate s, the gas limit is floor(s * 1.2) + 10000 in send_transaction
\* and in swap_rbtn_to_eth, and floor(s * 1.2) in execute_v4_swap.
C9_GasLimit ==
    (pc = "tx_signed" /\ ~tx_in.estimate_raises) =>
        LET q == IF tx_in.builder = "execute_v4_swap" THEN tx.gas ELSE tx.gas - 10000 IN
        /\ 10 * q <= 12 * tx_in.estimate
        /\ 12 * tx_in.estimate < 10 * (q + 1)

C9_Witness ==
    /\ pc = "tx_signed"
    /\ tx_in.builder = "send_transaction"
    /\ ~tx_in.estimate_raises
    /\ tx_in.estimate = 21001
    /\ tx.gas = 35201

FinalizerPcs ==
    {"sell_loop", "sell_wait", "swap_begin", "swap_approve_wait", "swap_send", "swap_wait", "returned"}

\* C10: once a mintSBT receipt with status 1 was seen, process_wallet neither raises nor
\* goes back to the cycle, and it returns, whatever the ownership query, the resale of
\* the jackpot item and the residual swap do.
C10_TerminalAfterClaim ==
    /\ [](sbt_confirmed => pc \in FinalizerPcs)
    /\ (sbt_confirmed ~> pc = "returned")

C10_Witness ==
    /\ sbt_confirmed
    /\ pc = "returned"
    /\ "sell" \in sent
    /\ "swap" \notin sent

\* C11: mark_wallet_completed is called, and the completion record written, only when the
\* credential of the wallet is on-chain: at the entry after balanceOf answered > 0, or after
\* a claim receipt with status 1; never after a reverted or timed-out claim.
C11_MarkAfterConfirmation ==
    /\ [](marked => sbt_balance > 0)
    /\ [][(marked' /\ ~marked) =>
            \/ pc = "start" /\ entry'.read = "balance"
            \/ pc = "sbt_wait" /\ sbt_confirmed']_vars
    /\ [][db_completed' # db_completed => (db_completed' /\ marked' /\ sbt_balance' > 0)]_vars

C11_Witness ==
    /\ marked
    /\ sbt_confirmed
    /\ db_completed
    /\ ~entry.completed
    /\ "claim" \in sent

SellPcs == {"sell_loop", "sell_wait"}

\* C12 (as claimed): whatever happens to a chunk, sell_nfts_batch is left only when its loop
\* has gone through every chunk, and process_wallet never raises out of a liquidation pass.
C12_ChunkTolerance ==
    [][(pc \in SellPcs /\ pc' \notin SellPcs) =>
        /\ pc' # "raised"
        /\ sellI >= Len(sellIds)]_vars

\* the receipt of the last common draw is missing, not a success, or has no Minted event
\* of the wallet
MintFailed(m) == m.status \in {"reverted", "timeout"} \/ (m.status = "ok" /\ m.token_id = None)

\* C13: when the receipt of a common draw is missing or not a success, or no Minted event
\* of the wallet decodes from it, the tracked ids, their value and the target are unchanged,
\* control is back at the head of the same loop with total_value < needed_value, and the
\* step after that is the next mint_noob call.
C13_FailedMintFrame ==
    /\ [][(pc = "mint_wait" /\ MintFailed(last_mint')) =>
            /\ nft_ids' = nft_ids
            /\ nft_rarity' = nft_rarity
            /\ total_value' = total_value
            /\ needed_value' = needed_value
            /\ pc' = "mint_loop"
            /\ abort_cause' = "none"]_vars
    /\ []((pc = "mint_loop" /\ MintFailed(last_mint)) => total_value < needed_value)
    /\ [][(pc = "mint_loop" /\ MintFailed(last_mint)) => pc' # "step2"]_vars

C13_Witness ==
    /\ pc = "mint_loop"
    /\ last_mint = [status |-> "ok", token_id |-> None]
    /\ Len(nft_ids) = 1
    /\ total_value = 15
    /\ needed_value = 800

WaitPcs ==
    {"mint_wait", "sell_wait", "approve_wait", "og_wait", "sbt_wait", "swap_approve_wait", "swap_wait"}

\* C14: a transaction is broadcast only when no receipt is being awaited, its receipt is
\* awaited right after the broadcast, and nothing else is broadcast until that await has
\* ended (with a receipt of either status or with a timeout).
C14_StepOrdering ==
    /\ [](awaiting # "none" <=> pc \in WaitPcs)
    /\ [](awaiting # "none" => (pc = AwaitPc(awaiting) /\ KindOf(awaiting) \in sent))
    /\ [][awaiting' # awaiting => (awaiting = "none" \/ awaiting' = "none")]_vars
    /\ [][sent' # sent => (awaiting = "none" /\ awaiting' # "none")]_vars

C14_Witness ==
    /\ awaiting = "draw"
    /\ pc = "og_wait"
    /\ sent = {"mint", "sell", "approve", "draw"}

\* C15: process_wallet is started for the next index only when no wallet is in progress,
\* the wallet in progress is the one at the position of the loop, and no key index is
\* started twice in a run.
C15_OneAtATime ==
    /\ [](\A k \in Keys : started[k] <= 1)
    /\ [](running # 0 <=> pc = "run_wallet")
    /\ [](running # 0 => (run_i <= Len(indices) /\ running = indices[run_i]))
    /\ [][running' # running => (running = 0 \/ running' = 0)]_vars
    /\ [][(\E k \in Keys : started'[k] # started[k]) => (running = 0 /\ pc = "run_loop")]_vars

C15_Witness ==
    /\ pc = "run_done"
    /\ \A k \in Keys : started[k] = 1
    /\ wallets_completed = 2
    /\ wallets_failed = 1

\* C16: while a jackpot-tier draw is broadcast and awaited, step 3 of the iteration and
\* mint_og have both read a balance >= 1300, and mint_og has read an allowance >= 1300 or
\* seen a receipt with status 1 for its approve; these reads come after the liquidation
\* pass of the iteration.
C16_DrawPreconditions ==
    /\ pc = "og_wait" =>
        /\ awaiting = "draw"
        /\ og_pre.step3 >= 1300
        /\ og_pre.balance >= 1300
        /\ (og_pre.allowance >= 1300 \/ og_pre.approve = "ok")
    /\ pc \in {"iter", "mint_loop", "mint_wait", "step2", "step3"} => og_pre = NoPre
    /\ (pc \in SellPcs /\ sellCtx = "accum") => og_pre = NoPre

C16_Witness ==
    /\ pc = "og_wait"
    /\ "sell" \in sent
    /\ og_pre.allowance = 0
    /\ og_pre.approve = "ok"

\* C17 (as claimed): a run of process_wallet that starts without the credential does not
\* end, by return or by exception, before the claim is confirmed and the completion record
\* is written: it goes on cycling or it reaches that state.
C17_Progress ==
    (~entry.completed) => ([]<>(pc \notin {"returned", "raised"}) \/ <>(sbt_confirmed /\ db_completed))

\* C18 (as claimed): process_wallet never raises because of an RPC error or of a receipt
\* that did not come in time.
C18_NoAbandon == pc = "raised" => abort_cause \notin {"rpc", "timeout"}

\* C19 (as claimed): is_wallet_completed(a, m) answers true exactly when a
\* mark_wallet_completed(a, m) has succeeded before.
C19_Original ==
    [][db_query' # db_query =>
        (db_query'.result <=> <<db_query'.address, db_query'.module>> \in db_marked)]_vars

\* C19: a successful mark_wallet_completed(a, m) adds the key (a, m) to the table and
\* leaves every other key as it was; is_wallet_completed(a, m) answers true when the key
\* was marked and the read succeeds, and false before any mark and when the read fails.
C19_RoundTrip ==
    /\ [](RowKeys(completed_wallets) = db_marked)
    /\ [][db_query' # db_query =>
            /\ db_query'.result <=>
                  (~db_query'.error /\ <<db_query'.address, db_query'.module>> \in db_marked)
            /\ UNCHANGED <<completed_wallets, db_marked>>]_vars
    /\ [][db_marked' # db_marked =>
            \E key \in Addresses \X Modules :
                /\ db_marked' = db_marked \cup {key}
                /\ RowKeys(completed_wallets') = RowKeys(completed_wallets) \cup {key}]_vars
    /\ [][RowKeys(completed_wallets) \subseteq RowKeys(completed_wallets')]_vars

C19_Witness ==
    /\ db_marked = {<<"0xAbCd", "redbutton_badge">>, <<"0xEf01", "uniswap">>}
    /\ db_query = [address |-> "0xAbCd", module |-> "redbutton_badge", error |-> FALSE, result |-> TRUE]

\* C20: when a confirmed draw is judged a miss, nothing is broadcast for the claim, nothing
\* is raised and no record is written; the item of the draw goes to sell_nfts_batch when its
\* id was decoded and ownerOf answers the wallet, in either spelling; and from there, sale
\* done, failed or raised, or with no sale, control goes to the head of the next iteration.
C20_MissRestarts ==
    /\ [][(pc = "og_wait" /\ last_draw'.judged = "miss") =>
            /\ sent' = sent
            /\ awaiting' = "none"
            /\ abort_cause' = abort_cause
            /\ marked' = marked
            /\ IF last_draw'.token_id # None /\ last_draw'.owner \in {"0xAbCd", "0xabcd"}
               THEN /\ pc' = "sell_loop"
                    /\ sellCtx' = "og"
                    /\ sellIds' = <<last_draw'.token_id>>
               ELSE pc' = "iter"]_vars
    /\ [](sellCtx = "og" => (pc \in SellPcs /\ last_draw.judged = "miss"))
    /\ [][(sellCtx = "og" /\ sellCtx' # "og") => pc' = "iter"]_vars
    /\ [][(pc = "iter" /\ last_draw.judged = "miss") => pc' \in {"iter", "mint_loop", "step2"}]_vars

C20_Witness ==
    /\ pc = "iter"
    /\ last_draw.judged = "miss"
    /\ last_draw.owner = "0xabcd"
    /\ sent = {"draw", "sell"}

\* C21: the outcome check runs only on a draw receipt with success status: a step that
\* resolves the await of a draw with a reverted or missing receipt goes back to the start
\* of the cycle without judging the draw, without starting a resale and without decoding a
\* jackpot id; and whenever a draw is judged a miss or a jackpot its receipt had status 1
C21_OutcomeOnlyOnSuccess ==
    /\ [][(pc = "og_wait" /\ last_draw'.status # "ok") =>
            /\ pc' = "iter"
            /\ last_draw'.judged = "none"
            /\ UNCHANGED <<sellVars, unique_token_id, next_token_id, sent>>]_vars
    /\ [](last_draw.judged # "none" => last_draw.status = "ok")
    /\ [](pc = "jackpot" => last_draw.status = "ok")

C21_Witness ==
    /\ pc = "iter"
    /\ "draw" \in sent
    /\ last_draw = [NoDraw EXCEPT !.status = "reverted"]
    /\ sellCtx = "none"

\* C22: the hasUniqueMinted view is consulted only when no Minted event of the wallet
\* decodes from the receipt; a receipt with a Minted event of the wallet, none of them of the
\* jackpot rarity, is judged a miss and the view is not consulted.
C22_FallbackOnlyWithoutEvent ==
    pc = "check_done" =>
        LET WalletEvents == {i \in 1..Len(chk_in.logs) :
                                /\ chk_in.logs[i].kind = "Minted"
                                /\ Lower(chk_in.logs[i].owner) = Lower(WalletAddress)}
        IN /\ chk_out.view_called => WalletEvents = {}
           /\ (/\ WalletEvents # {}
               /\ \A i \in WalletEvents : chk_in.logs[i].rarityIndex # RARITY_UNIQUE) =>
                  ~chk_out.is_unique

C24_Original == [][iter_balance # -1 => needed_value' = needed_value]_vars

\* C24: the target is set again at the start of every iteration of the wallet's cycle, to
\* the fixed target minus the balance read at that moment (to the fixed target itself when
\* the read fails or the balance already meets it), and no other step changes it.
C24_TargetPerIteration ==
    /\ [][pc = "iter" =>
            needed_value' = IF iter_balance' = -1 \/ iter_balance' >= TARGET_VALUE_RBTN
                            THEN TARGET_VALUE_RBTN
                            ELSE TARGET_VALUE_RBTN - iter_balance']_vars
    /\ [][pc # "iter" => needed_value' = needed_value]_vars

C24_Witness ==
    /\ pc = "mint_loop"
    /\ "draw" \in sent
    /\ permits[2] # NoPermit
    /\ iter_balance = 500
    /\ needed_value = 800

\* the sum of the table values of the tracked items whose index is in `keep`
\* (an index outside the table counts for nothing)
RECURSIVE TrackedSum(_, _)
TrackedSum(rarities, keep) ==
    IF rarities = <<>> THEN 0
    ELSE LET n == Len(rarities)
             r == rarities[n]
             v == IF n \in keep /\ r \in DOMAIN RARITY_VALUES THEN RARITY_VALUES[r] ELSE 0
         IN v + TrackedSum(SubSeq(rarities, 1, n - 1), keep)

\* C25 (as claimed): in every state the accumulated value is the sum of the table values
\* of the tracked items that have not been liquidated.
C25_Original ==
    total_value = TrackedSum(nft_rarity, {i \in 1..Len(nft_ids) : nft_ids[i] \notin liquidated})

\* C25: in every state the accumulated value is the sum of the table values of all the
\* items tracked since the last reset, liquidated or not (a rarity outside the table
\* counting for nothing); no tracked item is liquidated before the accumulation loop is
\* left, so until then this is also the sum over the items not yet liquidated.
C25_AccumulatedValue ==
    /\ Len(nft_rarity) = Len(nft_ids)
    /\ total_value = TrackedSum(nft_rarity, 1..Len(nft_ids))
    /\ pc \in MintPcs \cup {"step2"} => \A i \in 1..Len(nft_ids) : nft_ids[i] \notin liquidated

C25_Witness ==
    /\ pc = "step3"
    /\ nft_ids = <<1>>
    /\ nft_rarity = <<2>>
    /\ liquidated = {1}
    /\ total_value = 800

\* C26: a permit signature whose length is not 65 bytes ends the wallet's run with an
\* error: the step that finds it is the signing step of mint_og, it broadcasts nothing (no
\* draw in particular) and signs no permit message into a draw, and process_wallet is left
\* for good, so the cycle never retries.
C26_SignatureFatal ==
    /\ [][abort_cause' = "signature" =>
            /\ pc = "og_permit"
            /\ pc' = "raised"
            /\ UNCHANGED <<sent, awaiting, permits>>]_vars
    /\ [](abort_cause = "signature" => (pc = "raised" /\ awaiting = "none"))
    /\ [][pc = "raised" => UNCHANGED vars]_vars

C26_Witness ==
    /\ pc = "raised"
    /\ abort_cause = "signature"
    /\ "draw" \notin sent

\* C27: when a fatal error of a draw attempt (a permit signature of the wrong length, an
\* insufficient balance) ends the wallet's run, the attempt of mint_og that raised it has
\* broadcast no transaction: in particular no approve of that attempt was sent and mined.
C27_FatalLeavesChainUntouched ==
    [][abort_cause' \in {"signature", "balance"} =>
            /\ og_pre.approve = "none"
            /\ UNCHANGED sent]_vars

\* C28: every transaction is signed with the pending count the chain answers during its own
\* build, and it is built only when no receipt is awaited (the await of the previous
\* transaction has resolved); the nonce of an earlier transaction is not kept for a later one.
C28_PendingNonce ==
    [][pc = "nonce_idle" /\ (pc' = "nonce_wait" \/ tx_nonce' # tx_nonce) =>
            /\ tx_nonce' = tx_count
            /\ awaiting = "none"]_vars

C28_Witness ==
    /\ pc = "nonce_wait"
    /\ awaiting = "draw"
    /\ sent = {"approve", "draw"}
    /\ tx_nonce = 1
    /\ tx_count = 2

\* C29: get_minted_token_id answers the tokenId of the first log, in receipt order, that is
\* a Minted event whose owner equals the wallet address when both are lower-cased; logs that
\* are no Minted event or name another owner are passed over, and the answer is None when
\* no log matches.
C29_MintedDecoding ==
    pc = "check_done" =>
        LET Matching == {i \in 1..Len(chk_in.logs) :
                            /\ chk_in.logs[i].kind = "Minted"
                            /\ chk_in.logs[i].owner \in {"0xAbCd", "0xabcd"}}
        IN IF Matching = {}
           THEN chk_out.token_id = None
           ELSE \E i \in Matching :
                    /\ \A j \in Matching : i <= j
                    /\ chk_out.token_id = chk_in.logs[i].tokenId

C29_Witness ==
    /\ pc = "check_done"
    /\ chk_in.logs = <<MintedLog("0xEf01", ForeignTokenId, 0),
                       MintedLog("0xabcd", CheckTokenId + 1, 1)>>
    /\ chk_out.token_id = CheckTokenId + 1

\* C30: every permit is signed in the signing step of mint_og with the value nonces(owner)
\* has at that step, when no receipt is awaited and the allowance read by this attempt was
\* sufficient or the approve of this attempt was confirmed; when the nonces(owner) query
\* fails, no permit is signed, nothing is broadcast and process_wallet is left.
C30_FreshPermitNonce ==
    /\ [][(permits' # permits \/ (pc = "og_permit" /\ pc' = "og_wait")) =>
            /\ pc = "og_permit"
            /\ awaiting = "none"
            /\ permits'[2].nonce = permit_nonce
            /\ og_pre.allowance >= TARGET_VALUE_RBTN \/ og_pre.approve = "ok"]_vars
    /\ [][abort_cause' = "nonce" =>
            /\ pc = "og_permit"
            /\ pc' = "raised"
            /\ UNCHANGED <<permits, sent, awaiting>>]_vars
    /\ [](abort_cause = "nonce" => pc = "raised")

C30_Witness ==
    /\ pc = "og_wait"
    /\ og_pre.allowance = 0
    /\ og_pre.approve = "ok"
    /\ permits = <<[nonce |-> 0, chain |-> 0], [nonce |-> 1, chain |-> 1]>>

\* C31: a transaction built by send_transaction carries exactly one fee form: gasPrice
\* alone, equal to the chain's gas price, when the latest block has no base fee; otherwise
\* maxFeePerGas and maxPriorityFeePerGas alone, with maxFeePerGas twice the base fee plus
\* maxPriorityFeePerGas (a base fee of zero is a base fee).
C31_FeeForm ==
    (pc = "tx_signed" /\ tx_in.builder = "send_transaction") =>
        IF tx_in.base_fee = NoBaseFee
        THEN /\ DOMAIN tx = {"gasPrice", "gas"}
             /\ tx.gasPrice = tx_in.gas_price
        ELSE /\ DOMAIN tx = {"maxFeePerGas", "maxPriorityFeePerGas", "gas"}
             /\ tx.maxFeePerGas = 2 * tx_in.base_fee + tx.maxPriorityFeePerGas

C31_Witness ==
    /\ pc = "tx_signed"
    /\ tx_in.builder = "send_transaction"
    /\ tx_in.base_fee = NoBaseFee
    /\ tx_in.gas_price = 7
    /\ DOMAIN tx = {"gasPrice", "gas"}
    /\ tx.gasPrice = 7

\* C32 (as claimed): when the gas estimate fails, the transaction is signed with the gas
\* limit 650000 by send_transaction and 200000 by either swap builder.
C32_Original ==
    (pc = "tx_signed" /\ tx_in.estimate_raises) =>
        tx.gas = IF tx_in.builder = "send_transaction" THEN 650000 ELSE 200000

\* C32: when the gas estimate fails (a revert included), the builder still signs the
\* transaction, with the gas limit 650000 in send_transaction (draw, sell, approve, claim),
\* 200000 in the Uniswap v4 swap, and in the residual LI.FI swap the gasLimit of the quote,
\* or 500000 when the quote carries none.
C32_EstimateFallback ==
    /\ [][pc = "tx_build" => (pc' = "tx_signed" /\ "gas" \in DOMAIN tx')]_vars
    /\ [](pc = "tx_signed" /\ tx_in.estimate_raises =>
            tx.gas = CASE tx_in.builder = "send_transaction" -> 650000
                       [] tx_in.builder = "execute_v4_swap" -> 200000
                       [] tx_in.builder = "swap_rbtn_to_eth" ->
                            IF tx_in.quote_gas = NoQuoteGas THEN 500000 ELSE tx_in.quote_gas)

C32_Witness ==
    /\ pc = "tx_signed"
    /\ tx_in.builder = "swap_rbtn_to_eth"
    /\ tx_in.estimate_raises
    /\ tx_in.quote_gas = 300000
    /\ tx.gas = 300000

SwapPcs == {"swap_begin", "swap_approve_wait", "swap_send", "swap_wait"}

\* C33: once the credential claim is confirmed, process_wallet does not return before
\* swap_rbtn_to_eth was entered: every step by which it returns after a confirmed claim is a
\* step of the residual swap.
C33_SwapAlwaysAttempted ==
    [][(sbt_confirmed' /\ pc # "returned" /\ pc' = "returned") => pc \in SwapPcs]_vars

\* the table holds each of its rows once and no two rows with the same (address, module)
OneRowPerKey(rows) ==
    /\ \A r \in DOMAIN rows : rows[r] = 1
    /\ \A r, q \in DOMAIN rows : (r.address = q.address /\ r.module = q.module) => r = q

\* C34 (as claimed): the table holds at most one record per pair, marking a pair again
\* replaces its record and keeps the number of records, and get_module_stats(m) always
\* answers the number of addresses marked for m.
C34_Original ==
    /\ [](OneRowPerKey(completed_wallets))
    /\ [][(completed_wallets' # completed_wallets /\ db_marked' = db_marked) =>
            BagCardinality(completed_wallets') = BagCardinality(completed_wallets)]_vars
    /\ [][db_stats' # db_stats =>
            db_stats'.total_completed =
                Cardinality({k \in db_marked : k[2] = db_stats'.module})]_vars

\* C34: the table holds at most one record per (address, module); a successful mark of a
\* pair already present replaces its record and keeps the number of records, a successful
\* mark of a new pair adds one record; get_module_stats(m) answers the number of addresses
\* whose mark for m succeeded when the database can be read, and 0 when the read fails.
C34_OneRecordPerPair ==
    /\ [](OneRowPerKey(completed_wallets))
    /\ [][completed_wallets' # completed_wallets =>
            BagCardinality(completed_wallets') =
                BagCardinality(completed_wallets) + (IF db_marked' = db_marked THEN 0 ELSE 1)]_vars
    /\ [][db_stats' # db_stats =>
            db_stats'.total_completed =
                IF db_stats'.error THEN 0
                ELSE Cardinality({k \in db_marked : k[2] = db_stats'.module})]_vars

C34_Witness ==
    /\ completed_wallets = SetToBag({Row("0xAbCd", "redbutton_badge", 2),
                                     Row("0xEf01", "redbutton_badge", 1),
                                     Row("0xAbCd", "uniswap", 1)})
    /\ db_stats = [module |-> "redbutton_badge", error |-> FALSE, total_completed |-> 2]

(***************************************************************************)
(* harkan.py: the proxies of one run                                       *)
(***************************************************************************)
\* number of keys of a harkan run
MaxHarkanKeys == 2

HarkanKeys == 1..MaxHarkanKeys

\* lines 185-201: a proxy is its fields; two entries with the same fields are equal
ProxyEntry(host, port) == [host |-> host, port |-> port]

NoProxy == ProxyEntry("none", 0)

ProxyPool == {ProxyEntry("h1", 1), ProxyEntry("h1", 2), ProxyEntry("h2", 1)}

StoredIps == {"none", "h1", "h2"}

RequestKinds == {"register", "login", "info", "claim"}

\* lines 233-249: the run goes on only with at least as many proxies as keys
validate_proxy_count(keys_count, proxies_count) == proxies_count >= keys_count

\* lines 252-267: the proxy at the wallet's index
assign_proxy_to_wallet(wallet_index, proxies) == proxies[wallet_index]

\* lines 820-827: the first proxy of the list whose host is the stored address and which no
\* wallet has taken, or none
RECURSIVE FindStoredProxy(_, _, _)
FindStoredProxy(stored_ip, proxies, used) ==
    IF proxies = <<>> THEN NoProxy
    ELSE IF Head(proxies).host = stored_ip /\ Head(proxies) \notin used THEN Head(proxies)
    ELSE FindStoredProxy(stored_ip, Tail(proxies), used)

\* (variant: an assigned proxy is never reported as taken)
ProxyTaken_never(proxy, used) == FALSE

\* lines 833 and 892: the proxy assigned by index was taken by an earlier wallet
ProxyTaken(proxy, used) == proxy \in used

\* what process_wallet finds for one wallet
\* (an answer that the code never reads is fixed at FALSE or "none")
HarkanInputs ==
    {in \in [has_nft : BOOLEAN, raises : BOOLEAN, account : BOOLEAN,
             claim_requested : BOOLEAN, stored_ip : StoredIps, login : BOOLEAN,
             register : BOOLEAN, relogin : BOOLEAN, claim : BOOLEAN] :
        /\ in.raises => ~in.has_nft
        /\ (in.raises \/ in.has_nft) => ~in.account
        /\ ~in.account => (~in.claim_requested /\ in.stored_ip = "none" /\ ~in.login)
        /\ in.claim_requested => (in.stored_ip = "none" /\ ~in.login)
        /\ (in.raises \/ in.has_nft \/ in.claim_requested \/ in.login) => ~in.register
        /\ ~in.register => ~in.relogin
        /\ in.claim => (in.login \/ in.relogin)}

\* lines 792-813 and 997-1001: the wallet is settled before any proxy is chosen
HarkanEarly(in) == in.raises \/ in.has_nft \/ (in.account /\ in.claim_requested)

\* lines 840-883 and 896-995: the requests made once the proxy is chosen
HarkanRequests(in) ==
    IF in.account /\ in.login THEN {"login", "info", "claim"}
    ELSE (IF in.account THEN {"login"} ELSE {})
         \cup {"register"}
         \cup (IF in.register THEN {"login"} ELSE {})
         \cup (IF in.register /\ in.relogin THEN {"info", "claim"} ELSE {})

\* lines 869-877 and 904-995: what process_wallet returns after its requests
HarkanSuccess(in) ==
    IF in.account /\ in.login THEN in.claim
    ELSE in.register /\ in.relogin /\ in.claim

\* lines 1010-1056: keys and proxies are loaded, the indices are shuffled
InitHarkan ==
    /\ pc = "hk_start"
    /\ proxies_list \in UNION {[1..n -> ProxyPool] : n \in (MaxHarkanKeys - 1)..MaxHarkanKeys}
    /\ used_proxies_set = {}
    /\ hk_indices \in {p \in [HarkanKeys -> HarkanKeys] :
                          \A k \in HarkanKeys : \E i \in HarkanKeys : p[i] = k}
    /\ hk_i = 1
    /\ hk_proxy = [k \in HarkanKeys |-> NoProxy]
    /\ hk_requests = [k \in HarkanKeys |-> {}]
    /\ hk_result = [k \in HarkanKeys |-> "none"]
    /\ hk_in = NoHarkanIn
    /\ NoWallet
    /\ NoCycle
    /\ NoBuild
    /\ NoRun
    /\ NoDb
    /\ NoNonce

\* what the harkan run never touches
notHarkanVars == <<accVars, next_token_id, chainVars, sellVars, unique_token_id, histVars,
                   sent, awaiting, ghostVars, txVars, runVars, dbVars, nonceVars>>

\* lines 1031 and 1092-1094: the proxy count is validated; a short list ends the run
HarkanValidate ==
    /\ pc = "hk_start"
    /\ pc' = IF validate_proxy_count(MaxHarkanKeys, Len(proxies_list))
             THEN "hk_loop" ELSE "hk_refused"
    /\ UNCHANGED <<harkanVars, notHarkanVars>>

\* lines 1061-1071 with process_wallet, lines 768-1001: the next wallet is processed
HarkanProcessWallet ==
    /\ pc = "hk_loop"
    /\ hk_i <= Len(hk_indices)
    /\ \E in \in HarkanInputs :
         LET wallet_index == hk_indices[hk_i]
             stored == IF in.account /\ in.stored_ip # "none"
                       THEN FindStoredProxy(in.stored_ip, proxies_list, used_proxies_set)
                       ELSE NoProxy
             assigned == assign_proxy_to_wallet(wallet_index, proxies_list)
             proxy == IF stored # NoProxy THEN stored ELSE assigned
         IN  /\ hk_in' = [wallet_index |-> wallet_index, used |-> used_proxies_set,
                          early |-> HarkanEarly(in), account |-> in.account,
                          stored_ip |-> in.stored_ip]
             /\ IF HarkanEarly(in)
                THEN /\ hk_result' = [hk_result EXCEPT ![wallet_index] =
                                         IF in.raises THEN "failed" ELSE "completed"]
                     /\ UNCHANGED <<used_proxies_set, hk_proxy, hk_requests>>
                ELSE IF stored = NoProxy /\ ProxyTaken(assigned, used_proxies_set)
                THEN /\ hk_result' = [hk_result EXCEPT ![wallet_index] = "failed"]
                     /\ UNCHANGED <<used_proxies_set, hk_proxy, hk_requests>>
                ELSE /\ used_proxies_set' = used_proxies_set \cup {proxy}
                     /\ hk_proxy' = [hk_proxy EXCEPT ![wallet_index] = proxy]
                     /\ hk_requests' = [hk_requests EXCEPT ![wallet_index] = HarkanRequests(in)]
                     /\ hk_result' = [hk_result EXCEPT ![wallet_index] =
                                         IF HarkanSuccess(in) THEN "completed" ELSE "failed"]
    /\ hk_i' = hk_i + 1
    /\ UNCHANGED <<pc, proxies_list, hk_indices, notHarkanVars>>

\* line 1061: the indices are exhausted
HarkanLoopEnd ==
    /\ pc = "hk_loop"
    /\ hk_i > Len(hk_indices)
    /\ pc' = "hk_done"
    /\ UNCHANGED <<harkanVars, notHarkanVars>>

NextHarkan ==
    \/ HarkanValidate
    \/ HarkanProcessWallet
    \/ HarkanLoopEnd

SpecHarkan == InitHarkan /\ [][NextHarkan]_vars

\* the wallets that made a request through a proxy
HarkanServed == {k \in HarkanKeys : hk_proxy[k] # NoProxy}

\* the last wallet had no proxy left: none free at its stored address, and the one at its
\* index already taken
HarkanNoProxyLeft ==
    /\ hk_in # NoHarkanIn
    /\ ~hk_in.early
    /\ \A i \in 1..Len(proxies_list) :
          (hk_in.account /\ hk_in.stored_ip # "none" /\ proxies_list[i].host = hk_in.stored_ip)
              => proxies_list[i] \in hk_in.used
    /\ proxies_list[hk_in.wallet_index] \in hk_in.used

\* C35: within one harkan run no proxy serves two different wallets and every request of a
\* wallet goes through its one proxy; a wallet left with a proxy that is already in the used
\* set is returned as failed without a register, login or claim request; and a run with
\* fewer proxies than keys processes no wallet
C35_OneAccountOneProxy ==
    /\ \A k1, k2 \in HarkanServed : k1 # k2 => hk_proxy[k1] # hk_proxy[k2]
    /\ \A k \in HarkanKeys : hk_requests[k] # {} => k \in HarkanServed
    /\ used_proxies_set = {hk_proxy[k] : k \in HarkanServed}
    /\ HarkanNoProxyLeft =>
          /\ hk_result[hk_in.wallet_index] = "failed"
          /\ hk_requests[hk_in.wallet_index] = {}
          /\ hk_proxy[hk_in.wallet_index] = NoProxy
    /\ Len(proxies_list) < MaxHarkanKeys =>
          /\ pc \in {"hk_start", "hk_refused"}
          /\ \A k \in HarkanKeys : hk_result[k] = "none" /\ hk_requests[k] = {}

\* a wallet was skipped because another wallet of the run holds its proxy
C35_Witness ==
    /\ HarkanNoProxyLeft
    /\ HarkanServed # {}
    /\ hk_result[hk_in.wallet_index] = "failed"

\* C36: whenever the accumulation state is reset (lines 812-814), every id it still holds
\* has been carried by a sell transaction broadcast since the previous reset
C36_TrackedReachLiquidator ==
    [][(pc = "iter" /\ nft_ids' = <<>>) =>
          \A i \in 1..Len(nft_ids) : nft_ids[i] \in submitted]_vars

\* C37: once the credential claim that follows a jackpot draw has been broadcast, the run
\* broadcasts nothing but the resale of the jackpot item and the transactions of the
\* residual swap: no further common draw, approve or jackpot-tier draw
C37_NoSecondDraw ==
    [][("claim" \in sent /\ awaiting' # awaiting /\ awaiting' # "none") =>
          \/ awaiting' = "sell" /\ sellCtx' = "unique"
          \/ awaiting' \in {"swap_approve", "swap"}]_vars

\* C38: the deadline argument of every jackpot-tier draw in flight equals the deadline of
\* the permit it carries; the permit names the reward pool as spender, the draw cost as
\* value and the sending wallet as owner; and the deadline is the one computed at the entry
\* of mint_og, before any approve wait, unchanged until the draw is sent
C38_PermitAndDrawAgree ==
    /\ [](draw_tx # NoDrawTx =>
            /\ draw_tx.deadline = draw_tx.permit.deadline
            /\ draw_tx.permit.spender = REWARD_POOL_ADDRESS
            /\ draw_tx.permit.value = TARGET_VALUE_RBTN
            /\ draw_tx.permit.owner = draw_tx.from
            /\ draw_tx.from = WalletAddress
            /\ draw_tx.deadline = og_pre.start + PERMIT_TTL)
    /\ [][(og_pre.deadline # -1 /\ og_pre' # NoPre) =>
             (og_pre'.deadline = og_pre.deadline /\ og_pre'.start = og_pre.start)]_vars

\* a draw is in flight whose approve wait took time after the deadline was fixed
C38_Witness ==
    /\ pc = "og_wait"
    /\ draw_tx # NoDrawTx
    /\ og_pre.approve = "ok"
    /\ og_pre.waited > 0
    /\ draw_tx.deadline < og_pre.start + og_pre.waited + PERMIT_TTL

====
